---- MODULE Spec2Model ----
(***************************************************************************)
(* Model of the side-by-side diff engine of sync-manager:                  *)
(*   - align_lines, compute_word_diff_source, compute_word_diff_dest       *)
(*     (src/src/operations/diff.rs)                                        *)
(*   - build_aligned_lines, create_highlighted_lines and the scroll /      *)
(*     truncate step of render_side_by_side (src/src/ui/side_by_side.rs)   *)
(*   - the chunk loop of create_wrapped_lines of the widget library        *)
(*     (components/src/managers/split_diff/line_wrapping.rs)               *)
(*                                                                         *)
(* A text line is a sequence of one-character strings.  Line and row       *)
(* indices are 0-based as in the source; TLA+ sequences are 1-based, so    *)
(* line i of a list L is L[i + 1].                                         *)
(***************************************************************************)
EXTENDS Integers, Sequences, FiniteSets, TLC

VARIABLES
    phase,          \* which engine this behaviour exercises, and its position
    source,         \* align_lines: source lines
    dest,           \* align_lines: dest lines
    aligned,        \* align_lines: the op list under construction
    line,           \* word diff: the line the segments are computed for
    other,          \* word diff: the line it is compared with
    src_diffs,      \* word diff: compute_word_diff_source(line, other)
    dest_diffs,     \* word diff: compute_word_diff_dest(line, other)
    op_i,           \* build_aligned_lines: its loop index i, the next op
    source_visible, \* rows of the source column
    dest_visible,   \* rows of the dest column
    text_width,     \* columns available for text in one row
    fold_unchanged, \* app.fold_unchanged
    diff_scroll_offset, \* app.diff_scroll_offset at the last render
    available_height,   \* rows the panel can show at the last render
    w_word_units,   \* create_highlighted_lines: the word units still to place
    w_unit_chars,   \* create_highlighted_lines: unit_chars of the hard-split loop
    w_char_idx,     \* create_highlighted_lines: char_idx of the hard-split loop
    remaining_word, \* create_wrapped_lines: remaining_word of the chunk loop
    w_acc,          \* lines, current_line_spans, current_width, is_first_line
    cached_gutter_width, \* SplitDiffViewState.cached_gutter_width, <<>> for None
    gutter_call,    \* get_gutter_width: the arguments of the last call
    gutter_result,  \* get_gutter_width: what the last call returned
    app,            \* struct App: project config, view mode, diff lists, selected indices
    registry,       \* struct RectRegistry: handles, name_to_handle, next_id, tab_bar_states
    registry_call   \* RectRegistry: the last call, its arguments and what it returned

alignVars == <<source, dest, aligned>>
wordVars == <<line, other, src_diffs, dest_diffs>>
rowVars == <<op_i, source_visible, dest_visible>>
viewVars == <<text_width, fold_unchanged, diff_scroll_offset, available_height>>
wrapVars == <<w_word_units, w_unit_chars, w_char_idx, remaining_word, w_acc>>
gutterVars == <<cached_gutter_width, gutter_call, gutter_result>>
appVars == <<app>>
registryVars == <<registry, registry_call>>
vars == <<phase, alignVars, wordVars, rowVars, viewVars, wrapVars, gutterVars, appVars, registryVars>>

\* App::new (app.rs 85-102) for a project configuration: "None", or Some
\* configuration with or without mappings for the project
AppNew(project_config) ==
    [project_config |-> project_config,
     view_mode |-> "SharedToProject",
     shared_to_project_diffs |-> <<>>,
     project_to_shared_diffs |-> <<>>,
     shared_to_project_index |-> 0,
     project_to_shared_index |-> 0,
     show_side_by_side |-> FALSE]

\* No App method has run
AppIdle == app = AppNew("None")

\* RectRegistry::new (rect_handle.rs 173-180); a HashMap is a function
RegistryNew ==
    [handles |-> <<>>, name_to_handle |-> <<>>, next_id |-> 1, tab_bar_states |-> <<>>]

\* No RectRegistry method has run
RegistryIdle == registry = RegistryNew /\ registry_call = [op |-> "new"]

\* The widget state before any get_gutter_width call (Default, split_diff_view.rs 238-246)
GutterIdle ==
    /\ cached_gutter_width = <<>>
    /\ gutter_call = <<>>
    /\ gutter_result = <<>>

\* The row loops before they start: nothing to place, no row begun
WrapIdle ==
    /\ w_word_units = <<>> /\ w_unit_chars = <<>> /\ w_char_idx = 0
    /\ remaining_word = <<>>
    /\ w_acc = [lines |-> <<>>, current_line_spans |-> <<>>,
                current_width |-> 0, is_first_line |-> TRUE]

----------------------------------------------------------------------------
(* Bounds and input alphabets                                              *)

MaxLines == 3
MaxLineLen == 4
MaxRun == 10
MaxWidth == 3
MaxScroll == 4
MaxHeight == 3
MaxPipeLines == 2
MaxRows == 8

\* The characters word-diffed lines are made of: two letters and a blank
Chars == { "a", "b", " " }

\* The lines the aligner is exercised with: empty, whitespace-only, one
\* word, another word, two words (similar to either single word).
AlignLineSet ==
    { <<>>, <<" ">>, <<"a">>, <<"b">>, <<"a", " ", "b">> }

RECURSIVE SeqsUpTo(_, _)
SeqsUpTo(S, n) ==
    IF n = 0 THEN { <<>> }
    ELSE LET shorter == SeqsUpTo(S, n - 1)
         IN  shorter \cup { Append(q, x) : q \in { r \in shorter : Len(r) = n - 1 }, x \in S }

----------------------------------------------------------------------------
(* Small helpers standing for Rust library calls                           *)

Min(a, b) == IF a < b THEN a ELSE b
Max(a, b) == IF a > b THEN a ELSE b

\* char::is_whitespace on the model's alphabet
IsWhitespace(c) == c = " "

\* Vec::reverse
RECURSIVE Reverse(_)
Reverse(q) == IF q = <<>> THEN <<>> ELSE Append(Reverse(Tail(q)), Head(q))

\* str::split_whitespace().collect::<HashSet>() : the set of maximal
\* whitespace-free runs of the line
RECURSIVE WordsFrom(_, _, _)
WordsFrom(ln, k, cur) ==
    IF k > Len(ln)
    THEN IF cur = <<>> THEN {} ELSE { cur }
    ELSE IF IsWhitespace(ln[k])
         THEN (IF cur = <<>> THEN {} ELSE { cur }) \cup WordsFrom(ln, k + 1, <<>>)
         ELSE WordsFrom(ln, k + 1, Append(cur, ln[k]))

SplitWhitespaceSet(ln) == WordsFrom(ln, 1, <<>>)

----------------------------------------------------------------------------
(* operations/diff.rs : line alignment                                     *)

\* usize::MAX, the index a one-sided entry carries for its absent side
NoIdx == -1

Both(s, d) == [tag |-> "Both", s |-> s, d |-> d]
SourceOnly(s) == [tag |-> "SourceOnly", s |-> s, d |-> NoIdx]
DestOnly(d) == [tag |-> "DestOnly", s |-> NoIdx, d |-> d]

\* A normalisation that leaves whitespace-only lines as they are
normalize_line_for_comparison_mutant(ln) == ln

normalize_line_for_comparison(ln) ==
    IF \A k \in 1..Len(ln) : IsWhitespace(ln[k]) THEN <<>> ELSE ln

\* A similarity that any two lines with a word each have
lines_are_similar_any_mutant(line1, line2) ==
    (SplitWhitespaceSet(line1) = {}) = (SplitWhitespaceSet(line2) = {})

\* A similarity that needs more than half of the words in common
lines_are_similar_mutant(line1, line2) ==
    LET words1 == SplitWhitespaceSet(normalize_line_for_comparison(line1))
        words2 == SplitWhitespaceSet(normalize_line_for_comparison(line2))
    IN  IF words1 = {} /\ words2 = {} THEN TRUE
        ELSE Cardinality(words1 \cap words2) * 10 > Cardinality(words1 \cup words2) * 5

lines_are_similar(line1, line2) ==
    LET norm1 == normalize_line_for_comparison(line1)
        norm2 == normalize_line_for_comparison(line2)
        words1 == SplitWhitespaceSet(norm1)
        words2 == SplitWhitespaceSet(norm2)
        intersection == Cardinality(words1 \cap words2)
        union == Cardinality(words1 \cup words2)
    IN  IF norm1 = <<>> /\ norm2 = <<>> THEN TRUE
        ELSE IF norm1 = <<>> \/ norm2 = <<>> THEN FALSE
        ELSE IF union = 0 THEN FALSE
        ELSE intersection * 10 > union * 3

\* STEP 1: blank lines at the same position
forced_matches(src, dst) ==
    { idx \in 0..(Min(Len(src), Len(dst)) - 1) :
        /\ normalize_line_for_comparison(src[idx + 1]) = <<>>
        /\ normalize_line_for_comparison(dst[idx + 1]) = <<>> }

\* STEP 2: the forced matches, pushed first in increasing order
RECURSIVE forced_alignments(_, _, _)
forced_alignments(src, dst, idx) ==
    IF idx >= Min(Len(src), Len(dst)) THEN <<>>
    ELSE (IF idx \in forced_matches(src, dst) THEN << Both(idx, idx) >> ELSE <<>>)
         \o forced_alignments(src, dst, idx + 1)

\* STEP 3: original indices of the lines no forced match uses, in order
RECURSIVE remaining_indices(_, _, _)
remaining_indices(n, used, i) ==
    IF i >= n THEN <<>>
    ELSE (IF i \in used THEN <<>> ELSE << i >>) \o remaining_indices(n, used, i + 1)

\* A match condition that pairs equal lines only
dp_match_mutant(src, dst, si, dj) ==
    LET src_norm == normalize_line_for_comparison(src[si + 1])
        dest_norm == normalize_line_for_comparison(dst[dj + 1])
    IN  IF src_norm = dest_norm
        THEN (IF src_norm = <<>> THEN si = dj ELSE TRUE)
        ELSE FALSE

\* The match condition of the DP fill (diff.rs 416-438) for remaining
\* entries whose original indices are si and dj
dp_match(src, dst, si, dj) ==
    LET src_norm == normalize_line_for_comparison(src[si + 1])
        dest_norm == normalize_line_for_comparison(dst[dj + 1])
    IN  IF src_norm = dest_norm
        THEN (IF src_norm = <<>> THEN si = dj ELSE TRUE)
        ELSE lines_are_similar(src[si + 1], dst[dj + 1])

\* dp[i][j] over the remaining lines rs, rd (sequences of original indices)
RECURSIVE dp(_, _, _, _, _, _)
dp(src, dst, rs, rd, i, j) ==
    IF i = 0 \/ j = 0 THEN 0
    ELSE IF dp_match(src, dst, rs[i], rd[j])
         THEN dp(src, dst, rs, rd, i - 1, j - 1) + 1
         ELSE Max(dp(src, dst, rs, rd, i - 1, j), dp(src, dst, rs, rd, i, j - 1))

\* The backtrack loop (diff.rs 447-503): the entries in the order pushed,
\* already converted to original indices
RECURSIVE backtrack(_, _, _, _, _, _)
backtrack(src, dst, rs, rd, i, j) ==
    IF i = 0 /\ j = 0 THEN <<>>
    ELSE IF i > 0 /\ j > 0
    THEN LET src_norm == normalize_line_for_comparison(src[rs[i] + 1])
             dest_norm == normalize_line_for_comparison(dst[rd[j] + 1])
             here == dp(src, dst, rs, rd, i, j)
             diag == dp(src, dst, rs, rd, i - 1, j - 1)
             up == dp(src, dst, rs, rd, i - 1, j)
             left == dp(src, dst, rs, rd, i, j - 1)
             takeBoth == << Both(rs[i], rd[j]) >> \o backtrack(src, dst, rs, rd, i - 1, j - 1)
             takeSrc == << SourceOnly(rs[i]) >> \o backtrack(src, dst, rs, rd, i - 1, j)
             takeDst == << DestOnly(rd[j]) >> \o backtrack(src, dst, rs, rd, i, j - 1)
         IN  IF src_norm = dest_norm
             THEN LET should_match_blank ==
                          IF src_norm = <<>> THEN rs[i] = rd[j] ELSE TRUE
                  IN  IF should_match_blank /\ here = diag + 1 THEN takeBoth
                      ELSE IF up >= left THEN takeSrc ELSE takeDst
             ELSE IF lines_are_similar(src[rs[i] + 1], dst[rd[j] + 1]) /\ here = diag + 1
                  THEN takeBoth
                  ELSE IF up > left THEN takeSrc
                  ELSE IF left > up THEN takeDst
                  ELSE takeSrc
    ELSE IF i > 0
    THEN << SourceOnly(rs[i]) >> \o backtrack(src, dst, rs, rd, i - 1, j)
    ELSE << DestOnly(rd[j]) >> \o backtrack(src, dst, rs, rd, i, j - 1)

\* STEP 3-5: what the LCS stage appends to the forced matches
lcs_remaining(src, dst) ==
    LET used == forced_matches(src, dst)
        rs == remaining_indices(Len(src), used, 0)
        rd == remaining_indices(Len(dst), used, 0)
    IN  IF rs # <<>> /\ rd # <<>>
        THEN Reverse(backtrack(src, dst, rs, rd, Len(rs), Len(rd)))
        ELSE [k \in 1..Len(rs) |-> SourceOnly(rs[k])]
             \o [k \in 1..Len(rd) |-> DestOnly(rd[k])]

\* STEP 6, inner loop: position of the first Both entry whose index on the
\* given side is `want` and whose line on that side is blank (0 if none)
RECURSIVE find_blank_both(_, _, _, _, _)
find_blank_both(list, lines, side, want, j) ==
    IF j > Len(list) THEN 0
    ELSE IF /\ list[j].tag = "Both"
            /\ (IF side = "s" THEN list[j].s ELSE list[j].d) = want
            /\ normalize_line_for_comparison(lines[want + 1]) = <<>>
         THEN j
         ELSE find_blank_both(list, lines, side, want, j + 1)

\* STEP 6, outer loop from position i on, mutating the list in place
RECURSIVE post_process(_, _, _, _)
post_process(list, src, dst, i) ==
    IF i > Len(list) THEN list
    ELSE IF list[i].tag = "SourceOnly"
    THEN LET j == find_blank_both(list, src, "s", list[i].s + 1, 1)
         IN  post_process(IF j = 0 THEN list
                          ELSE [list EXCEPT ![j] = SourceOnly(list[j].s)],
                          src, dst, i + 1)
    ELSE IF list[i].tag = "DestOnly"
    THEN LET j == find_blank_both(list, dst, "d", list[i].d + 1, 1)
         IN  post_process(IF j = 0 THEN list
                          ELSE [list EXCEPT ![j] = DestOnly(list[j].d)],
                          src, dst, i + 1)
    ELSE post_process(list, src, dst, i + 1)

\* A key that is the same for every entry: the stable sort moves nothing
sort_key_mutant(op) == 0

\* STEP 7: the sort key; a DestOnly entry sorts as usize::MAX
sort_key(op) == IF op.tag = "DestOnly" THEN NoIdx ELSE op.s

key_le(a, b) ==
    IF a = NoIdx THEN b = NoIdx
    ELSE IF b = NoIdx THEN TRUE
    ELSE a <= b

\* slice::sort_by is stable: insert each entry after the entries whose key
\* is not larger
RECURSIVE insert_sorted(_, _)
insert_sorted(sorted, op) ==
    IF sorted = <<>> THEN << op >>
    ELSE IF key_le(sort_key(sorted[Len(sorted)]), sort_key(op))
         THEN Append(sorted, op)
         ELSE Append(insert_sorted(SubSeq(sorted, 1, Len(sorted) - 1), op),
                     sorted[Len(sorted)])

RECURSIVE sort_alignments(_, _)
sort_alignments(list, k) ==
    IF k = 0 THEN <<>>
    ELSE insert_sorted(sort_alignments(list, k - 1), list[k])

align_lines(src, dst) ==
    sort_alignments(
        post_process(forced_alignments(src, dst, 0) \o lcs_remaining(src, dst),
                     src, dst, 1),
        Len(forced_alignments(src, dst, 0) \o lcs_remaining(src, dst)))

----------------------------------------------------------------------------
(* The aligner as a state machine: one action per STEP of align_lines      *)

AlignInit ==
    /\ phase = "align_start"
    /\ source \in SeqsUpTo(AlignLineSet, MaxLines)
    /\ dest \in SeqsUpTo(AlignLineSet, MaxLines)
    /\ aligned = <<>>
    /\ line = <<>> /\ other = <<>> /\ src_diffs = <<>> /\ dest_diffs = <<>>
    /\ op_i = 0 /\ source_visible = <<>> /\ dest_visible = <<>>
    /\ text_width = 0 /\ fold_unchanged = FALSE
    /\ diff_scroll_offset = 0 /\ available_height = 0
    /\ WrapIdle
    /\ GutterIdle
    /\ AppIdle
    /\ RegistryIdle

ForcedMatches ==
    /\ phase = "align_start"
    /\ aligned' = forced_alignments(source, dest, 0)
    /\ phase' = "align_forced"
    /\ UNCHANGED <<source, dest, wordVars, rowVars, viewVars, wrapVars, gutterVars, appVars, registryVars>>

LcsRemaining ==
    /\ phase = "align_forced"
    /\ aligned' = aligned \o lcs_remaining(source, dest)
    /\ phase' = "align_lcs"
    /\ UNCHANGED <<source, dest, wordVars, rowVars, viewVars, wrapVars, gutterVars, appVars, registryVars>>

PostProcess ==
    /\ phase = "align_lcs"
    /\ aligned' = post_process(aligned, source, dest, 1)
    /\ phase' = "align_post"
    /\ UNCHANGED <<source, dest, wordVars, rowVars, viewVars, wrapVars, gutterVars, appVars, registryVars>>

SortAlignments ==
    /\ phase = "align_post"
    /\ aligned' = sort_alignments(aligned, Len(aligned))
    /\ phase' = "align_done"
    /\ UNCHANGED <<source, dest, wordVars, rowVars, viewVars, wrapVars, gutterVars, appVars, registryVars>>

AlignNext == ForcedMatches \/ LcsRemaining \/ PostProcess \/ SortAlignments

SpecAlign == AlignInit /\ [][AlignNext]_vars

----------------------------------------------------------------------------
(* Claims about align_lines                                                *)

\* The source (dest) indices carried by the ops of a list, in list order
RECURSIVE src_indices(_)
src_indices(list) ==
    IF list = <<>> THEN <<>>
    ELSE (IF Head(list).tag \in {"Both", "SourceOnly"} THEN << Head(list).s >> ELSE <<>>)
         \o src_indices(Tail(list))

RECURSIVE dst_indices(_)
dst_indices(list) ==
    IF list = <<>> THEN <<>>
    ELSE (IF Head(list).tag \in {"Both", "DestOnly"} THEN << Head(list).d >> ELSE <<>>)
         \o dst_indices(Tail(list))

ExactlyOnce(idxs, n) ==
    \A v \in 0..(n - 1) : Cardinality({ k \in 1..Len(idxs) : idxs[k] = v }) = 1

StrictlyIncreasing(idxs) ==
    \A k \in 1..(Len(idxs) - 1) : idxs[k] < idxs[k + 1]

\* C1: the list returned by align_lines carries every source index
\* 0..len(source)-1 in exactly one Both/SourceOnly op and every dest index
\* 0..len(dest)-1 in exactly one Both/DestOnly op.
C1_EveryIndexExactlyOnce ==
    phase = "align_done" =>
        /\ ExactlyOnce(src_indices(aligned), Len(source))
        /\ ExactlyOnce(dst_indices(aligned), Len(dest))

\* C2: in the list returned by align_lines the dest indices carried by
\* Both and DestOnly ops appear in strictly increasing order.
C2_DestIndicesIncreasing ==
    phase = "align_done" => StrictlyIncreasing(dst_indices(aligned))

\* C5: for every index i below both lengths at which source[i] and dest[i]
\* are both blank, the list returned by align_lines contains Both(i, i).
C5_BlankPairsStayMatched ==
    phase = "align_done" =>
        \A i \in forced_matches(source, dest) :
            \E k \in 1..Len(aligned) : aligned[k] = Both(i, i)

----------------------------------------------------------------------------
(* operations/diff.rs : word-level diff of one line against another        *)

Segment(text, changed) == [text |-> text, changed |-> changed]

\* str::starts_with
starts_with(s, prefix) ==
    /\ Len(prefix) <= Len(s)
    /\ SubSeq(s, 1, Len(prefix)) = prefix

\* str::split_inclusive(char::is_whitespace): every piece ends with the
\* whitespace character that closes it; no empty piece at the end
RECURSIVE split_inclusive_from(_, _, _)
split_inclusive_from(s, k, cur) ==
    IF k > Len(s)
    THEN IF cur = <<>> THEN <<>> ELSE << cur >>
    ELSE IF IsWhitespace(s[k])
         THEN << Append(cur, s[k]) >> \o split_inclusive_from(s, k + 1, <<>>)
         ELSE split_inclusive_from(s, k + 1, Append(cur, s[k]))

split_inclusive(s) == split_inclusive_from(s, 1, <<>>)

\* [&str]::concat
RECURSIVE concat(_)
concat(words) == IF words = <<>> THEN <<>> ELSE Head(words) \o concat(Tail(words))

\* "Find longest common prefix" loop (diff.rs 609-617, 686-694)
RECURSIVE common_prefix_len(_, _, _)
common_prefix_len(line_words, other_words, i) ==
    IF /\ i < Min(Len(line_words), Len(other_words))
       /\ line_words[i + 1] = other_words[i + 1]
    THEN common_prefix_len(line_words, other_words, i + 1)
    ELSE i

\* "Find longest common suffix" loop (diff.rs 620-633, 697-710), from
\* iteration i on
RECURSIVE common_suffix_from(_, _, _, _)
common_suffix_from(line_words, other_words, prefix_len, i) ==
    LET min_len == Min(Len(line_words), Len(other_words))
        max_suffix == Min(Min(min_len - prefix_len, Len(line_words) - prefix_len),
                          Len(other_words) - prefix_len)
        line_idx == Len(line_words) - 1 - i
        other_idx == Len(other_words) - 1 - i
    IN  IF /\ i < max_suffix
           /\ line_idx >= prefix_len
           /\ other_idx >= prefix_len
           /\ line_words[line_idx + 1] = other_words[other_idx + 1]
        THEN common_suffix_from(line_words, other_words, prefix_len, i + 1)
        ELSE i

\* A slip the suffix loop guards against: a suffix allowed to run into the
\* tokens the prefix already claimed
RECURSIVE common_suffix_overlapping(_, _, _)
common_suffix_overlapping(line_words, other_words, i) ==
    IF /\ i < Min(Len(line_words), Len(other_words))
       /\ line_words[Len(line_words) - i] = other_words[Len(other_words) - i]
    THEN common_suffix_overlapping(line_words, other_words, i + 1)
    ELSE i

common_suffix_len_mutant(line_words, other_words, prefix_len) ==
    common_suffix_overlapping(line_words, other_words, 0)

common_suffix_len(line_words, other_words, prefix_len) ==
    common_suffix_from(line_words, other_words, prefix_len, 0)

\* A result with one changed segment for every token of the middle part
emit_segments_mutant(line_words, prefix_len, suffix_len) ==
    (IF prefix_len > 0
     THEN << Segment(concat(SubSeq(line_words, 1, prefix_len)), FALSE) >>
     ELSE <<>>)
    \o [k \in 1..(Len(line_words) - suffix_len - prefix_len) |->
           Segment(line_words[prefix_len + k], TRUE)]
    \o (IF suffix_len > 0
        THEN << Segment(concat(SubSeq(line_words, Len(line_words) - suffix_len + 1,
                                      Len(line_words))), FALSE) >>
        ELSE <<>>)

\* "Add prefix", "Add middle part", "Add suffix" (diff.rs 635-657, 712-734)
emit_segments(line_words, prefix_len, suffix_len) ==
    (IF prefix_len > 0
     THEN << Segment(concat(SubSeq(line_words, 1, prefix_len)), FALSE) >>
     ELSE <<>>)
    \o (IF prefix_len < Len(line_words) - suffix_len
        THEN << Segment(concat(SubSeq(line_words, prefix_len + 1,
                                      Len(line_words) - suffix_len)), TRUE) >>
        ELSE <<>>)
    \o (IF suffix_len > 0
        THEN << Segment(concat(SubSeq(line_words, Len(line_words) - suffix_len + 1,
                                      Len(line_words))), FALSE) >>
        ELSE <<>>)

token_segments_from(line_words, other_words, prefix_len) ==
    emit_segments(line_words, prefix_len,
                  common_suffix_len(line_words, other_words, prefix_len))

token_segments(line_words, other_words) ==
    token_segments_from(line_words, other_words,
                        common_prefix_len(line_words, other_words, 0))

\* The token path shared by both functions (diff.rs 605-657, 682-734):
\* unchanged prefix, changed middle, unchanged suffix of `line`
token_diff(ln, oth) == token_segments(split_inclusive(ln), split_inclusive(oth))

compute_word_diff_source(ln, oth) ==
    IF normalize_line_for_comparison(ln) = normalize_line_for_comparison(oth)
    THEN << Segment(ln, FALSE) >>
    ELSE IF starts_with(oth, ln)
    THEN << Segment(ln, FALSE) >>
    ELSE token_diff(ln, oth)

compute_word_diff_dest(ln, oth) ==
    IF normalize_line_for_comparison(ln) = normalize_line_for_comparison(oth)
    THEN << Segment(ln, FALSE) >>
    ELSE IF starts_with(ln, oth) /\ Len(ln) > Len(oth)
    THEN << Segment(oth, FALSE), Segment(SubSeq(ln, Len(oth) + 1, Len(ln)), TRUE) >>
    ELSE token_diff(ln, oth)

----------------------------------------------------------------------------
(* The word differ as a state machine: the two calls add_modified_line     *)
(* makes, source side first                                                *)

WordDiffInit ==
    /\ phase = "wd_start"
    /\ line \in SeqsUpTo(Chars, MaxLineLen)
    /\ other \in SeqsUpTo(Chars, MaxLineLen)
    /\ src_diffs = <<>> /\ dest_diffs = <<>>
    /\ source = <<>> /\ dest = <<>> /\ aligned = <<>>
    /\ op_i = 0 /\ source_visible = <<>> /\ dest_visible = <<>>
    /\ text_width = 0 /\ fold_unchanged = FALSE
    /\ diff_scroll_offset = 0 /\ available_height = 0
    /\ WrapIdle
    /\ GutterIdle
    /\ AppIdle
    /\ RegistryIdle

WordDiffSource ==
    /\ phase = "wd_start"
    /\ src_diffs' = compute_word_diff_source(line, other)
    /\ phase' = "wd_source"
    /\ UNCHANGED <<line, other, dest_diffs, alignVars, rowVars, viewVars, wrapVars, gutterVars, appVars, registryVars>>

WordDiffDest ==
    /\ phase = "wd_source"
    /\ dest_diffs' = compute_word_diff_dest(line, other)
    /\ phase' = "wd_done"
    /\ UNCHANGED <<line, other, src_diffs, alignVars, rowVars, viewVars, wrapVars, gutterVars, appVars, registryVars>>

WordDiffNext == WordDiffSource \/ WordDiffDest

SpecWordDiff == WordDiffInit /\ [][WordDiffNext]_vars

----------------------------------------------------------------------------
(* Claims about the word differ                                            *)

RECURSIVE segment_text(_)
segment_text(segs) ==
    IF segs = <<>> THEN <<>> ELSE Head(segs).text \o segment_text(Tail(segs))

\* Positions (1-based) of the concatenated segment text that lie in a
\* segment marked changed
RECURSIVE changed_positions(_, _)
changed_positions(segs, offset) ==
    IF segs = <<>> THEN {}
    ELSE (IF Head(segs).changed
          THEN (offset + 1)..(offset + Len(Head(segs).text))
          ELSE {})
         \cup changed_positions(Tail(segs), offset + Len(Head(segs).text))

StrictPrefix(p, s) == starts_with(s, p) /\ Len(p) < Len(s)

\* C10: whenever one of line and other is a strict literal prefix of the
\* other, neither function marks a character of the shared prefix changed.
C10_SharedPrefixNeverChanged ==
    (phase = "wd_done" /\ (StrictPrefix(line, other) \/ StrictPrefix(other, line))) =>
        LET shared == 1..Min(Len(line), Len(other))
        IN  /\ changed_positions(src_diffs, 0) \cap shared = {}
            /\ changed_positions(dest_diffs, 0) \cap shared = {}

----------------------------------------------------------------------------
(* ui/side_by_side.rs : rows.  A row (ratatui Line) is a sequence of       *)
(* spans; a span is a text with the name of its style.                     *)

Span(text, style) == [text |-> text, style |-> style]

\* usize::saturating_sub
saturating_sub(a, b) == IF a > b THEN a - b ELSE 0

\* " ".repeat(n)
repeat_space(n) == [k \in 1..n |-> " "]

DigitChars == << "0", "1", "2", "3", "4", "5", "6", "7", "8", "9" >>

\* usize formatted with {}
RECURSIVE to_string(_)
to_string(n) ==
    IF n < 10 THEN << DigitChars[n + 1] >>
    ELSE to_string(n \div 10) \o << DigitChars[(n % 10) + 1] >>

\* render_side_by_side 29-35: floor(log10(max_line_num)) + 1, and 1 for 0
max_line_digits_of(source_lines, dest_lines) ==
    LET max_line_num == Max(Len(source_lines), Len(dest_lines))
    IN  IF max_line_num = 0 THEN 1 ELSE Len(to_string(max_line_num))

gutter_width_of(source_lines, dest_lines) ==
    max_line_digits_of(source_lines, dest_lines) + 1

\* format!("{:width$} ", line_num, width = max_line_digits)
format_gutter(line_num, max_line_digits) ==
    repeat_space(saturating_sub(max_line_digits, Len(to_string(line_num))))
        \o to_string(line_num) \o << " " >>

\* Sum of the character counts of a list of spans
RECURSIVE content_width(_)
content_width(spans) ==
    IF spans = <<>> THEN 0 ELSE Len(Head(spans).text) + content_width(Tail(spans))

create_blank_line(tw, gutter_width) ==
    << Span(repeat_space(gutter_width), "gutter"),
       Span(repeat_space(tw), "default"),
       Span(<< " " >>, "default") >>

LinesHidden == << " ", "l", "i", "n", "e", "s", " ", "h", "i", "d", "d", "e", "n" >>

create_fold_indicator(hidden_count, tw, gutter_width) ==
    LET text == to_string(hidden_count) \o LinesHidden
        padding_len == saturating_sub(tw, Len(text))
    IN  << Span(repeat_space(gutter_width), "gutter"),
           Span(text, "fold_indicator"),
           Span(repeat_space(padding_len), "default"),
           Span(<< " " >>, "default") >>

\* split_into_word_units: a word with the whitespace character that
\* follows it; further whitespace forms a unit of its own
RECURSIVE word_units_from(_, _, _, _)
word_units_from(text, k, current_unit, in_word) ==
    IF k > Len(text)
    THEN IF current_unit = <<>> THEN <<>> ELSE << current_unit >>
    ELSE IF IsWhitespace(text[k])
         THEN IF in_word
              THEN << Append(current_unit, text[k]) >>
                   \o word_units_from(text, k + 1, <<>>, FALSE)
              ELSE word_units_from(text, k + 1, Append(current_unit, text[k]), FALSE)
         ELSE IF ~in_word /\ current_unit # <<>>
              THEN << current_unit >> \o word_units_from(text, k + 1, << text[k] >>, TRUE)
              ELSE word_units_from(text, k + 1, Append(current_unit, text[k]), TRUE)

\* Units that lose their whitespace
split_into_word_units_mutant(text) ==
    [k \in 1..Len(word_units_from(text, 1, <<>>, FALSE)) |->
        SelectSeq(word_units_from(text, 1, <<>>, FALSE)[k], LAMBDA c : ~IsWhitespace(c))]

split_into_word_units(text) == word_units_from(text, 1, <<>>, FALSE)

\* The accumulator create_highlighted_lines threads through its loops
Acc(lines, spans, width, first) ==
    [lines |-> lines, current_line_spans |-> spans,
     current_width |-> width, is_first_line |-> first]

\* A row emitter whose continuation rows get a gutter of spaces
finish_row_mutant(acc, gutter, tw, base_style) ==
    LET padding_len == saturating_sub(tw, content_width(acc.current_line_spans))
        row == << Span(IF acc.is_first_line THEN gutter ELSE repeat_space(Len(gutter)),
                       "gutter") >>
               \o acc.current_line_spans
               \o (IF padding_len > 0
                   THEN << Span(repeat_space(padding_len), base_style) >>
                   ELSE <<>>)
               \o << Span(<< " " >>, base_style) >>
    IN  Acc(Append(acc.lines, row), <<>>, 0, FALSE)

\* Emitting the current row (side_by_side.rs 647-673, 687-710, 731-754):
\* gutter, the spans, padding up to text_width, the right margin.  The
\* continuation gutter is the same string as the first row's gutter.
finish_row(acc, gutter, tw, base_style) ==
    LET padding_len == saturating_sub(tw, content_width(acc.current_line_spans))
        row == << Span(gutter, "gutter") >>
               \o acc.current_line_spans
               \o (IF padding_len > 0
                   THEN << Span(repeat_space(padding_len), base_style) >>
                   ELSE <<>>)
               \o << Span(<< " " >>, base_style) >>
    IN  Acc(Append(acc.lines, row), <<>>, 0, FALSE)

\* An iteration that takes one character more than the room left
hard_split_step_mutant(acc, unit_chars, char_idx, style, gutter, tw, base_style) ==
    LET remaining == saturating_sub(tw, acc.current_width)
        take_count == Min(remaining + 1, Len(unit_chars) - char_idx)
    IN  IF remaining = 0
        THEN [acc |-> finish_row(acc, gutter, tw, base_style), char_idx |-> char_idx]
        ELSE [acc |-> Acc(acc.lines,
                          Append(acc.current_line_spans,
                                 Span(SubSeq(unit_chars, char_idx + 1, char_idx + take_count),
                                      style)),
                          acc.current_width + take_count,
                          acc.is_first_line),
              char_idx |-> char_idx + take_count]

\* One iteration of the hard-split loop (side_by_side.rs 683-720)
hard_split_step(acc, unit_chars, char_idx, style, gutter, tw, base_style) ==
    LET remaining == saturating_sub(tw, acc.current_width)
        take_count == Min(remaining, Len(unit_chars) - char_idx)
    IN  IF remaining = 0
        THEN [acc |-> finish_row(acc, gutter, tw, base_style), char_idx |-> char_idx]
        ELSE [acc |-> Acc(acc.lines,
                          Append(acc.current_line_spans,
                                 Span(SubSeq(unit_chars, char_idx + 1, char_idx + take_count),
                                      style)),
                          acc.current_width + take_count,
                          acc.is_first_line),
              char_idx |-> char_idx + take_count]

\* The hard-split loop run to its end; text_width >= 1 is required for it
\* to end
RECURSIVE hard_split(_, _, _, _, _, _, _)
RECURSIVE hard_split_continue(_, _, _, _, _, _)
hard_split(acc, unit_chars, char_idx, style, gutter, tw, base_style) ==
    IF char_idx >= Len(unit_chars) THEN acc
    ELSE hard_split_continue(
             hard_split_step(acc, unit_chars, char_idx, style, gutter, tw, base_style),
             unit_chars, style, gutter, tw, base_style)

hard_split_continue(nxt, unit_chars, style, gutter, tw, base_style) ==
    hard_split(nxt.acc, unit_chars, nxt.char_idx, style, gutter, tw, base_style)

\* The second half of the loop body (side_by_side.rs 676-725), after the
\* wrap check
place_unit(wrapped, unit, style, gutter, tw, base_style) ==
    IF /\ Len(unit) > saturating_sub(tw, wrapped.current_width)
       /\ wrapped.current_line_spans = <<>>
    THEN hard_split(wrapped, unit, 0, style, gutter, tw, base_style)
    ELSE Acc(wrapped.lines,
             Append(wrapped.current_line_spans, Span(unit, style)),
             wrapped.current_width + Len(unit),
             wrapped.is_first_line)

\* The body of the loop over word units (side_by_side.rs 640-726)
add_unit(acc, unit, style, gutter, tw, base_style) ==
    place_unit(IF /\ Len(unit) > saturating_sub(tw, acc.current_width)
                  /\ acc.current_line_spans # <<>>
               THEN finish_row(acc, gutter, tw, base_style)
               ELSE acc,
               unit, style, gutter, tw, base_style)

RECURSIVE add_units(_, _, _, _, _, _)
add_units(acc, units, style, gutter, tw, base_style) ==
    IF units = <<>> THEN acc
    ELSE add_units(add_unit(acc, Head(units), style, gutter, tw, base_style),
                   Tail(units), style, gutter, tw, base_style)

RECURSIVE add_diffs(_, _, _, _, _, _)
add_diffs(acc, diffs, gutter, tw, base_style, highlight_style) ==
    IF diffs = <<>> THEN acc
    ELSE add_diffs(add_units(acc, split_into_word_units(Head(diffs).text),
                             IF Head(diffs).changed THEN highlight_style ELSE base_style,
                             gutter, tw, base_style),
                   Tail(diffs), gutter, tw, base_style, highlight_style)

\* "If no lines were created, create at least one empty line"
lines_or_empty_line(lines, gutter, tw, base_style) ==
    IF lines = <<>>
    THEN << << Span(gutter, "gutter"),
               Span(repeat_space(tw), base_style),
               Span(<< " " >>, base_style) >> >>
    ELSE lines

\* "Add final line" (side_by_side.rs 729-766)
final_lines(acc, gutter, tw, base_style) ==
    lines_or_empty_line(
        IF acc.current_line_spans # <<>>
        THEN finish_row(acc, gutter, tw, base_style).lines
        ELSE acc.lines,
        gutter, tw, base_style)

highlighted_lines_with_gutter(gutter, diffs, tw, base_style, highlight_style) ==
    final_lines(add_diffs(Acc(<<>>, <<>>, 0, TRUE), diffs, gutter, tw,
                          base_style, highlight_style),
                gutter, tw, base_style)

create_highlighted_lines(line_num, diffs, tw, gutter_width, max_line_digits, base_style, highlight_style) ==
    highlighted_lines_with_gutter(format_gutter(line_num, max_line_digits), diffs, tw,
                                  base_style, highlight_style)

----------------------------------------------------------------------------
(* ui/side_by_side.rs : the two columns                                    *)

Visible(sv, dv) == [source_visible |-> sv, dest_visible |-> dv]

blank_lines(n, tw, gutter_width) == [k \in 1..n |-> create_blank_line(tw, gutter_width)]

\* The rows of both sides appended with no padding
pad_shorter_mutant(vis, src_wrapped, dest_wrapped, tw, gutter_width) ==
    Visible(vis.source_visible \o src_wrapped, vis.dest_visible \o dest_wrapped)

\* "Ensure both sides have the same number of lines by padding with blank
\* lines" (side_by_side.rs 395-409, 452-466)
pad_shorter(vis, src_wrapped, dest_wrapped, tw, gutter_width) ==
    LET src_count == Len(src_wrapped)
        dest_count == Len(dest_wrapped)
    IN  IF src_count > dest_count
        THEN Visible(vis.source_visible \o src_wrapped,
                     vis.dest_visible \o dest_wrapped
                         \o blank_lines(src_count - dest_count, tw, gutter_width))
        ELSE IF dest_count > src_count
        THEN Visible(vis.source_visible \o src_wrapped
                         \o blank_lines(dest_count - src_count, tw, gutter_width),
                     vis.dest_visible \o dest_wrapped)
        ELSE Visible(vis.source_visible \o src_wrapped, vis.dest_visible \o dest_wrapped)

\* A slip in the padding: the rows of both sides appended with no padding
add_unchanged_line(vis, src_idx, dest_idx, source_lines, dest_lines, tw, gutter_width, max_line_digits) ==
    pad_shorter(vis,
        create_highlighted_lines(src_idx + 1, << Segment(source_lines[src_idx + 1], FALSE) >>,
                                 tw, gutter_width, max_line_digits, "default", "default"),
        create_highlighted_lines(dest_idx + 1, << Segment(dest_lines[dest_idx + 1], FALSE) >>,
                                 tw, gutter_width, max_line_digits, "default", "default"),
        tw, gutter_width)

add_modified_line(vis, src_idx, dest_idx, source_lines, dest_lines, tw, gutter_width, max_line_digits) ==
    pad_shorter(vis,
        create_highlighted_lines(src_idx + 1,
            compute_word_diff_source(source_lines[src_idx + 1], dest_lines[dest_idx + 1]),
            tw, gutter_width, max_line_digits,
            "side_by_side_source_modified_bg", "side_by_side_source_highlight"),
        create_highlighted_lines(dest_idx + 1,
            compute_word_diff_dest(dest_lines[dest_idx + 1], source_lines[src_idx + 1]),
            tw, gutter_width, max_line_digits,
            "side_by_side_dest_modified_bg", "side_by_side_dest_highlight"),
        tw, gutter_width)

\* One side's rows and as many blank rows on the other side
one_sided_rows(wrapped, blank_wrapped, tw, gutter_width) ==
    [own |-> wrapped \o blank_wrapped,
     blank |-> blank_lines(Len(wrapped), tw, gutter_width)
               \o blank_lines(Len(blank_wrapped), tw, gutter_width)]

\* A blank line shown as changed below a one-sided line: none for None
next_blank_wrapped(next_idx, lines, tw, gutter_width, max_line_digits, style) ==
    IF next_idx = NoIdx THEN <<>>
    ELSE create_highlighted_lines(next_idx + 1, << Segment(lines[next_idx + 1], TRUE) >>,
                                  tw, gutter_width, max_line_digits, style, style)

append_source_only(vis, rows) ==
    Visible(vis.source_visible \o rows.own, vis.dest_visible \o rows.blank)

append_dest_only(vis, rows) ==
    Visible(vis.source_visible \o rows.blank, vis.dest_visible \o rows.own)

\* next_blank is << >> (None) or << next_src_idx, next_dest_idx >>
add_source_only_line(vis, src_idx, source_lines, tw, gutter_width, max_line_digits, next_blank) ==
    append_source_only(vis,
        one_sided_rows(
            create_highlighted_lines(src_idx + 1, << Segment(source_lines[src_idx + 1], TRUE) >>,
                tw, gutter_width, max_line_digits,
                "side_by_side_source_highlight", "side_by_side_source_highlight"),
            next_blank_wrapped(IF next_blank = <<>> THEN NoIdx ELSE next_blank[1],
                source_lines, tw, gutter_width, max_line_digits,
                "side_by_side_source_highlight"),
            tw, gutter_width))

add_dest_only_line(vis, dest_idx, dest_lines, tw, gutter_width, max_line_digits, next_blank) ==
    append_dest_only(vis,
        one_sided_rows(
            create_highlighted_lines(dest_idx + 1, << Segment(dest_lines[dest_idx + 1], TRUE) >>,
                tw, gutter_width, max_line_digits,
                "side_by_side_dest_highlight", "side_by_side_dest_highlight"),
            next_blank_wrapped(IF next_blank = <<>> THEN NoIdx ELSE next_blank[2],
                dest_lines, tw, gutter_width, max_line_digits,
                "side_by_side_dest_highlight"),
            tw, gutter_width))

\* The nested helper of build_aligned_lines (side_by_side.rs 122-129)
normalize_for_comparison(ln) ==
    IF \A k \in 1..Len(ln) : IsWhitespace(ln[k]) THEN <<>> ELSE ln

\* The has_changes closure (side_by_side.rs 131-140)
has_changes(op, source_lines, dest_lines) ==
    IF op.tag = "Both"
    THEN normalize_for_comparison(source_lines[op.s + 1])
             # normalize_for_comparison(dest_lines[op.d + 1])
    ELSE TRUE

CONTEXT_LINES == 3

\* The scan for a foldable region from op j on (side_by_side.rs 146-162)
RECURSIVE unchanged_count_from(_, _, _, _)
unchanged_count_from(al, source_lines, dest_lines, j) ==
    IF /\ j < Len(al)
       /\ al[j + 1].tag = "Both"
       /\ normalize_for_comparison(source_lines[al[j + 1].s + 1])
              = normalize_for_comparison(dest_lines[al[j + 1].d + 1])
    THEN 1 + unchanged_count_from(al, source_lines, dest_lines, j + 1)
    ELSE 0

has_change_before(al, source_lines, dest_lines, k) ==
    k > 0 /\ has_changes(al[k], source_lines, dest_lines)

has_change_after(al, source_lines, dest_lines, k, unchanged_count) ==
    /\ k + unchanged_count < Len(al)
    /\ has_changes(al[k + unchanged_count + 1], source_lines, dest_lines)

\* side_by_side.rs 168-174; NoIdx stands for usize::MAX
min_lines_for_fold(before, after) ==
    IF before /\ after THEN CONTEXT_LINES * 2 + 1
    ELSE IF before \/ after THEN CONTEXT_LINES + 1
    ELSE NoIdx

\* unchanged_count > min_lines_for_fold, where nothing exceeds usize::MAX
exceeds(count, limit) == limit # NoIdx /\ count > limit

folds_with_count(al, source_lines, dest_lines, k, unchanged_count) ==
    exceeds(unchanged_count,
            min_lines_for_fold(
                has_change_before(al, source_lines, dest_lines, k),
                has_change_after(al, source_lines, dest_lines, k, unchanged_count)))

\* Whether the loop iteration at op k takes the fold branch
folds_at(al, source_lines, dest_lines, k, fold) ==
    /\ fold
    /\ folds_with_count(al, source_lines, dest_lines, k,
                        unchanged_count_from(al, source_lines, dest_lines, k))

\* "Show context before" / "Show context after": ops k..last-1 in full
RECURSIVE add_context(_, _, _, _, _, _, _, _, _)
add_context(vis, al, k, last, source_lines, dest_lines, tw, gutter_width, max_line_digits) ==
    IF k >= last THEN vis
    ELSE add_context(
             IF al[k + 1].tag = "Both"
             THEN add_unchanged_line(vis, al[k + 1].s, al[k + 1].d, source_lines, dest_lines,
                                     tw, gutter_width, max_line_digits)
             ELSE vis,
             al, k + 1, last, source_lines, dest_lines, tw, gutter_width, max_line_digits)

\* "Show fold indicator" (side_by_side.rs 206-211)
push_fold_indicator(vis, hidden_count, tw, gutter_width) ==
    IF hidden_count > 0
    THEN Visible(Append(vis.source_visible,
                        create_fold_indicator(hidden_count, tw, gutter_width)),
                 Append(vis.dest_visible,
                        create_fold_indicator(hidden_count, tw, gutter_width)))
    ELSE vis

\* side_by_side.rs 187-233, the three emissions in order
fold_emit(vis, al, source_lines, dest_lines, k, unchanged_count, context_before, context_after, tw, gutter_width, max_line_digits) ==
    [i |-> k + unchanged_count,
     vis |-> add_context(
                 push_fold_indicator(
                     add_context(vis, al, k, k + context_before, source_lines, dest_lines,
                                 tw, gutter_width, max_line_digits),
                     unchanged_count - context_before - context_after, tw, gutter_width),
                 al, k + unchanged_count - context_after, k + unchanged_count,
                 source_lines, dest_lines, tw, gutter_width, max_line_digits)]

\* side_by_side.rs 177-186
fold_contexts(vis, al, source_lines, dest_lines, k, unchanged_count, before, after, tw, gutter_width, max_line_digits) ==
    fold_emit(vis, al, source_lines, dest_lines, k, unchanged_count,
              IF before THEN Min(CONTEXT_LINES, unchanged_count) ELSE 0,
              IF after
              THEN Min(CONTEXT_LINES,
                       unchanged_count
                           - (IF before THEN Min(CONTEXT_LINES, unchanged_count) ELSE 0))
              ELSE 0,
              tw, gutter_width, max_line_digits)

fold_with_count(vis, al, source_lines, dest_lines, k, unchanged_count, tw, gutter_width, max_line_digits) ==
    fold_contexts(vis, al, source_lines, dest_lines, k, unchanged_count,
                  has_change_before(al, source_lines, dest_lines, k),
                  has_change_after(al, source_lines, dest_lines, k, unchanged_count),
                  tw, gutter_width, max_line_digits)

\* The fold branch (side_by_side.rs 176-233)
fold_region(vis, al, source_lines, dest_lines, k, tw, gutter_width, max_line_digits) ==
    fold_with_count(vis, al, source_lines, dest_lines, k,
                    unchanged_count_from(al, source_lines, dest_lines, k),
                    tw, gutter_width, max_line_digits)

\* side_by_side.rs 246-250
is_same(src_line, dest_line) ==
    IF /\ \A c \in 1..Len(src_line) : IsWhitespace(src_line[c])
       /\ \A c \in 1..Len(dest_line) : IsWhitespace(dest_line[c])
    THEN TRUE
    ELSE src_line = dest_line

\* side_by_side.rs 238-277
process_both(vis, al, source_lines, dest_lines, k, tw, gutter_width, max_line_digits) ==
    [i |-> k + 1,
     vis |-> IF is_same(source_lines[al[k + 1].s + 1], dest_lines[al[k + 1].d + 1])
             THEN add_unchanged_line(vis, al[k + 1].s, al[k + 1].d, source_lines,
                                     dest_lines, tw, gutter_width, max_line_digits)
             ELSE add_modified_line(vis, al[k + 1].s, al[k + 1].d, source_lines,
                                    dest_lines, tw, gutter_width, max_line_digits)]

\* "Check if next line is a blank line that should be shown as changed"
\* (side_by_side.rs 280-295, 315-330): << >> or the indices of the blank pair
next_blank_indices(al, source_lines, dest_lines, k) ==
    IF /\ k + 1 < Len(al)
       /\ al[k + 2].tag = "Both"
       /\ normalize_for_comparison(source_lines[al[k + 2].s + 1]) = <<>>
       /\ normalize_for_comparison(dest_lines[al[k + 2].d + 1]) = <<>>
    THEN << al[k + 2].s, al[k + 2].d >>
    ELSE <<>>

\* side_by_side.rs 278-312
process_source_only(vis, al, source_lines, dest_lines, k, tw, gutter_width, max_line_digits) ==
    [i |-> IF next_blank_indices(al, source_lines, dest_lines, k) = <<>>
           THEN k + 1 ELSE k + 2,
     vis |-> add_source_only_line(vis, al[k + 1].s, source_lines, tw, gutter_width,
                 max_line_digits, next_blank_indices(al, source_lines, dest_lines, k))]

\* side_by_side.rs 313-347
process_dest_only(vis, al, source_lines, dest_lines, k, tw, gutter_width, max_line_digits) ==
    [i |-> IF next_blank_indices(al, source_lines, dest_lines, k) = <<>>
           THEN k + 1 ELSE k + 2,
     vis |-> add_dest_only_line(vis, al[k + 1].d, dest_lines, tw, gutter_width,
                 max_line_digits, next_blank_indices(al, source_lines, dest_lines, k))]

\* One iteration of the loop of build_aligned_lines (side_by_side.rs 143-351)
build_step(vis, al, source_lines, dest_lines, k, tw, fold) ==
    IF folds_at(al, source_lines, dest_lines, k, fold)
    THEN fold_region(vis, al, source_lines, dest_lines, k, tw,
                     gutter_width_of(source_lines, dest_lines),
                     max_line_digits_of(source_lines, dest_lines))
    ELSE IF al[k + 1].tag = "Both"
    THEN process_both(vis, al, source_lines, dest_lines, k, tw,
                      gutter_width_of(source_lines, dest_lines),
                      max_line_digits_of(source_lines, dest_lines))
    ELSE IF al[k + 1].tag = "SourceOnly"
    THEN process_source_only(vis, al, source_lines, dest_lines, k, tw,
                             gutter_width_of(source_lines, dest_lines),
                             max_line_digits_of(source_lines, dest_lines))
    ELSE process_dest_only(vis, al, source_lines, dest_lines, k, tw,
                           gutter_width_of(source_lines, dest_lines),
                           max_line_digits_of(source_lines, dest_lines))

\* build_aligned_lines from op k on, with the rows built so far
RECURSIVE build_aligned_lines_from(_, _, _, _, _, _, _)
RECURSIVE build_aligned_lines_continue(_, _, _, _, _, _)
build_aligned_lines_from(vis, al, source_lines, dest_lines, k, tw, fold) ==
    IF k >= Len(al) THEN vis
    ELSE build_aligned_lines_continue(
             build_step(vis, al, source_lines, dest_lines, k, tw, fold),
             al, source_lines, dest_lines, tw, fold)

build_aligned_lines_continue(nxt, al, source_lines, dest_lines, tw, fold) ==
    build_aligned_lines_from(nxt.vis, al, source_lines, dest_lines, nxt.i, tw, fold)

build_aligned_lines(al, source_lines, dest_lines, tw, fold) ==
    build_aligned_lines_from(Visible(<<>>, <<>>), al, source_lines, dest_lines, 0, tw, fold)

\* Vec::drain(..n) keeps what follows the first n rows
drain_front(rows, n) == SubSeq(rows, n + 1, Len(rows))

\* Vec::truncate
truncate(rows, n) == SubSeq(rows, 1, Min(n, Len(rows)))

\* render_side_by_side 52-55: the offset actually applied
\* A slip in the clamp: the offset clamped to the row count, not to the
\* index of the last row
applied_scroll_offset_mutant(offset, source_rows) == Min(offset, Len(source_rows))

applied_scroll_offset(offset, source_rows) ==
    Min(offset, saturating_sub(Len(source_rows), 1))

\* render_side_by_side 52-63, for one column; the clamp reads the length
\* of the source column for both
scroll_and_truncate(rows, offset, height, source_rows) ==
    LET scroll_offset == applied_scroll_offset(offset, source_rows)
    IN  truncate(IF scroll_offset > 0 THEN drain_front(rows, scroll_offset) ELSE rows,
                 height)

----------------------------------------------------------------------------
(* The row formatter as a state machine: one action per iteration of the   *)
(* loop of build_aligned_lines, then the scroll and truncate step of       *)
(* render_side_by_side.                                                    *)

\* Op lists with a long unchanged run: a head of up to two ops, a run of
\* identical line pairs, a tail of at most one changed op.
HeadKinds == { "Modified", "SourceOnly", "DestOnly", "BlankPair" }
TailKinds == { "Modified", "SourceOnly", "DestOnly" }

\* The line (pair) an op of each kind stands on
UnchangedLine == << "a", "b" >>
ModifiedSourceLine == << "a", " ", "b" >>
ModifiedDestLine == << "a", " ", "b", "b", "b", "b" >>
SourceOnlyLine == << "b", " ", "a" >>
DestOnlyLine == << "b" >>
BlankSourceLine == << >>
BlankDestLine == << " ", " " >>

Input(src, dst, al) == [source |-> src, dest |-> dst, aligned |-> al]

\* The input whose op list has the given kinds, indices increasing
RECURSIVE input_of_kinds(_, _)
input_of_kinds(kinds, acc) ==
    IF kinds = <<>> THEN acc
    ELSE LET si == Len(acc.source)
             di == Len(acc.dest)
             kind == Head(kinds)
         IN  input_of_kinds(Tail(kinds),
                 CASE kind = "Unchanged" ->
                        Input(Append(acc.source, UnchangedLine),
                              Append(acc.dest, UnchangedLine),
                              Append(acc.aligned, Both(si, di)))
                   [] kind = "BlankPair" ->
                        Input(Append(acc.source, BlankSourceLine),
                              Append(acc.dest, BlankDestLine),
                              Append(acc.aligned, Both(si, di)))
                   [] kind = "Modified" ->
                        Input(Append(acc.source, ModifiedSourceLine),
                              Append(acc.dest, ModifiedDestLine),
                              Append(acc.aligned, Both(si, di)))
                   [] kind = "SourceOnly" ->
                        Input(Append(acc.source, SourceOnlyLine), acc.dest,
                              Append(acc.aligned, SourceOnly(si)))
                   [] OTHER ->
                        Input(acc.source, Append(acc.dest, DestOnlyLine),
                              Append(acc.aligned, DestOnly(di))))

RunInputs ==
    { input_of_kinds(head \o [k \in 1..run |-> "Unchanged"] \o tail, Input(<<>>, <<>>, <<>>)) :
        head \in SeqsUpTo(HeadKinds, 2),
        run \in 0..MaxRun,
        tail \in SeqsUpTo(TailKinds, 1) }

\* Op lists as the aligner returns them for short files
AlignedInputs ==
    { Input(src, dst, align_lines(src, dst)) :
        src \in SeqsUpTo(AlignLineSet, MaxPipeLines),
        dst \in SeqsUpTo(AlignLineSet, MaxPipeLines) }

FormatInit ==
    /\ phase = "fmt_loop"
    /\ \E inp \in RunInputs \cup AlignedInputs :
          /\ source = inp.source
          /\ dest = inp.dest
          /\ aligned = inp.aligned
    /\ text_width \in 1..MaxWidth
    /\ fold_unchanged \in BOOLEAN
    /\ op_i = 0 /\ source_visible = <<>> /\ dest_visible = <<>>
    /\ diff_scroll_offset = 0 /\ available_height = 0
    /\ line = <<>> /\ other = <<>> /\ src_diffs = <<>> /\ dest_diffs = <<>>
    /\ WrapIdle
    /\ GutterIdle
    /\ AppIdle
    /\ RegistryIdle

\* The rows and the index an iteration leaves
TakeStep(result) ==
    /\ op_i' = result.i
    /\ source_visible' = result.vis.source_visible
    /\ dest_visible' = result.vis.dest_visible
    /\ UNCHANGED <<phase, alignVars, wordVars, viewVars, wrapVars, gutterVars, appVars, registryVars>>

FoldRegion ==
    /\ phase = "fmt_loop"
    /\ op_i < Len(aligned)
    /\ folds_at(aligned, source, dest, op_i, fold_unchanged)
    /\ TakeStep(fold_region(Visible(source_visible, dest_visible), aligned, source, dest,
                            op_i, text_width, gutter_width_of(source, dest),
                            max_line_digits_of(source, dest)))

ProcessBoth ==
    /\ phase = "fmt_loop"
    /\ op_i < Len(aligned)
    /\ ~folds_at(aligned, source, dest, op_i, fold_unchanged)
    /\ aligned[op_i + 1].tag = "Both"
    /\ TakeStep(process_both(Visible(source_visible, dest_visible), aligned, source, dest,
                             op_i, text_width, gutter_width_of(source, dest),
                             max_line_digits_of(source, dest)))

ProcessSourceOnly ==
    /\ phase = "fmt_loop"
    /\ op_i < Len(aligned)
    /\ ~folds_at(aligned, source, dest, op_i, fold_unchanged)
    /\ aligned[op_i + 1].tag = "SourceOnly"
    /\ TakeStep(process_source_only(Visible(source_visible, dest_visible), aligned, source,
                                    dest, op_i, text_width, gutter_width_of(source, dest),
                                    max_line_digits_of(source, dest)))

ProcessDestOnly ==
    /\ phase = "fmt_loop"
    /\ op_i < Len(aligned)
    /\ ~folds_at(aligned, source, dest, op_i, fold_unchanged)
    /\ aligned[op_i + 1].tag = "DestOnly"
    /\ TakeStep(process_dest_only(Visible(source_visible, dest_visible), aligned, source,
                                  dest, op_i, text_width, gutter_width_of(source, dest),
                                  max_line_digits_of(source, dest)))

ScrollAndTruncate ==
    /\ phase = "fmt_loop"
    /\ op_i >= Len(aligned)
    /\ \E offset \in 0..MaxScroll, height \in 0..MaxHeight :
          /\ diff_scroll_offset' = offset
          /\ available_height' = height
          /\ source_visible' = scroll_and_truncate(source_visible, offset, height,
                                                   source_visible)
          /\ dest_visible' = scroll_and_truncate(dest_visible, offset, height,
                                                 source_visible)
    /\ phase' = "fmt_shown"
    /\ UNCHANGED <<op_i, alignVars, wordVars, text_width, fold_unchanged, wrapVars, gutterVars, appVars, registryVars>>

FormatNext ==
    FoldRegion \/ ProcessBoth \/ ProcessSourceOnly \/ ProcessDestOnly \/ ScrollAndTruncate

SpecFormat == FormatInit /\ [][FormatNext]_vars

----------------------------------------------------------------------------
(* The row loops, step by step: create_highlighted_lines of the            *)
(* application for one unchanged line, and the chunk loop of               *)
(* create_wrapped_lines of the widget library for one added word.  The     *)
(* text width starts at 0: render_side_by_side computes it with            *)
(* saturating_sub from the panel width (side_by_side.rs 40-43).            *)

WrapGutter == format_gutter(1, 1)

\* The word is one the chunk loop runs for: a single word of
\* split_inclusive, wider than the text width (line_wrapping.rs 90-101)
ChunkLoopWord(word, tw) ==
    /\ Len(split_inclusive(word)) = 1
    /\ Len(word) > tw

WrapInit ==
    /\ text_width \in 0..MaxWidth
    /\ line \in SeqsUpTo(Chars, MaxLineLen)
    /\ \/ /\ phase = "wrap_units"
          /\ w_word_units = split_into_word_units(line)
          /\ remaining_word = <<>>
       \/ /\ phase = "chunk_loop"
          /\ ChunkLoopWord(line, text_width)
          /\ w_word_units = <<>>
          /\ remaining_word = line
    /\ w_unit_chars = <<>> /\ w_char_idx = 0
    /\ w_acc = Acc(<<>>, <<>>, 0, TRUE)
    /\ other = <<>> /\ src_diffs = <<>> /\ dest_diffs = <<>>
    /\ source = <<>> /\ dest = <<>> /\ aligned = <<>>
    /\ op_i = 0 /\ source_visible = <<>> /\ dest_visible = <<>>
    /\ fold_unchanged = FALSE /\ diff_scroll_offset = 0 /\ available_height = 0
    /\ GutterIdle
    /\ AppIdle
    /\ RegistryIdle

\* "If this unit doesn't fit on current line, wrap to next line"
\* (side_by_side.rs 644-674)
wrap_before_unit(acc, unit, tw) ==
    IF /\ Len(unit) > saturating_sub(tw, acc.current_width)
       /\ acc.current_line_spans # <<>>
    THEN finish_row(acc, WrapGutter, tw, "default")
    ELSE acc

\* The test that sends a unit to the hard-split loop (side_by_side.rs 677-678)
needs_hard_split(wrapped, unit, tw) ==
    /\ Len(unit) > saturating_sub(tw, wrapped.current_width)
    /\ wrapped.current_line_spans = <<>>

\* "Unit fits, add it to current line" (side_by_side.rs 721-725)
PlaceUnit ==
    /\ phase = "wrap_units"
    /\ w_word_units # <<>>
    /\ ~needs_hard_split(wrap_before_unit(w_acc, Head(w_word_units), text_width),
                         Head(w_word_units), text_width)
    /\ w_acc' = add_unit(w_acc, Head(w_word_units), "default", WrapGutter, text_width,
                         "default")
    /\ w_word_units' = Tail(w_word_units)
    /\ UNCHANGED <<phase, w_unit_chars, w_char_idx, remaining_word,
                   alignVars, wordVars, rowVars, viewVars, gutterVars, appVars, registryVars>>

\* "Unit is longer than line width, break it character by character"
\* (side_by_side.rs 678-681)
EnterHardSplit ==
    /\ phase = "wrap_units"
    /\ w_word_units # <<>>
    /\ needs_hard_split(wrap_before_unit(w_acc, Head(w_word_units), text_width),
                        Head(w_word_units), text_width)
    /\ w_acc' = wrap_before_unit(w_acc, Head(w_word_units), text_width)
    /\ w_unit_chars' = Head(w_word_units)
    /\ w_char_idx' = 0
    /\ w_word_units' = Tail(w_word_units)
    /\ phase' = "wrap_split"
    /\ UNCHANGED <<remaining_word, alignVars, wordVars, rowVars, viewVars, gutterVars, appVars, registryVars>>

\* An iteration of the hard-split loop that finds no room left: it emits
\* the row and continues (side_by_side.rs 683-712)
HardSplitWrap ==
    /\ phase = "wrap_split"
    /\ w_char_idx < Len(w_unit_chars)
    /\ saturating_sub(text_width, w_acc.current_width) = 0
    /\ Len(w_acc.lines) < MaxRows
    /\ w_acc' = hard_split_step(w_acc, w_unit_chars, w_char_idx, "default", WrapGutter,
                                text_width, "default").acc
    /\ w_char_idx' = hard_split_step(w_acc, w_unit_chars, w_char_idx, "default",
                                     WrapGutter, text_width, "default").char_idx
    /\ UNCHANGED <<phase, w_word_units, w_unit_chars, remaining_word,
                   alignVars, wordVars, rowVars, viewVars, gutterVars, appVars, registryVars>>

\* An iteration of the hard-split loop that takes characters
\* (side_by_side.rs 714-719)
HardSplitTake ==
    /\ phase = "wrap_split"
    /\ w_char_idx < Len(w_unit_chars)
    /\ saturating_sub(text_width, w_acc.current_width) > 0
    /\ w_acc' = hard_split_step(w_acc, w_unit_chars, w_char_idx, "default", WrapGutter,
                                text_width, "default").acc
    /\ w_char_idx' = hard_split_step(w_acc, w_unit_chars, w_char_idx, "default",
                                     WrapGutter, text_width, "default").char_idx
    /\ UNCHANGED <<phase, w_word_units, w_unit_chars, remaining_word,
                   alignVars, wordVars, rowVars, viewVars, gutterVars, appVars, registryVars>>

\* The hard-split loop's exit: char_idx reached the end of the unit
HardSplitExit ==
    /\ phase = "wrap_split"
    /\ w_char_idx >= Len(w_unit_chars)
    /\ phase' = "wrap_units"
    /\ UNCHANGED <<wrapVars, alignVars, wordVars, rowVars, viewVars, gutterVars, appVars, registryVars>>

\* "Add final line" and the return (side_by_side.rs 728-766)
FinalLines ==
    /\ phase = "wrap_units"
    /\ w_word_units = <<>>
    /\ w_acc' = Acc(final_lines(w_acc, WrapGutter, text_width, "default"), <<>>,
                    w_acc.current_width, w_acc.is_first_line)
    /\ phase' = "wrap_done"
    /\ UNCHANGED <<w_word_units, w_unit_chars, w_char_idx, remaining_word,
                   alignVars, wordVars, rowVars, viewVars, gutterVars, appVars, registryVars>>

\* finish_line! of create_wrapped_lines (line_wrapping.rs 60-82), for a
\* line with no other line: the padding takes the highlight style
finish_line(acc, tw) ==
    LET remaining_width == saturating_sub(tw, content_width(acc.current_line_spans))
        row == << Span(IF acc.is_first_line THEN WrapGutter ELSE repeat_space(2),
                       "gutter") >>
               \o acc.current_line_spans
               \o (IF remaining_width > 0
                   THEN << Span(repeat_space(remaining_width), "highlight") >>
                   ELSE <<>>)
    IN  Acc(Append(acc.lines, row), <<>>, 0, FALSE)

\* The chunk pushed on the current row (line_wrapping.rs 109-116)
push_chunk(acc, word, chunk_size) ==
    Acc(acc.lines,
        Append(acc.current_line_spans, Span(SubSeq(word, 1, chunk_size), "highlight")),
        acc.current_width + chunk_size,
        acc.is_first_line)

\* One iteration of the chunk loop (line_wrapping.rs 104-120)
chunk_step(acc, word, tw) ==
    LET started == IF acc.current_line_spans # <<>> /\ acc.current_width >= tw
                   THEN finish_line(acc, tw) ELSE acc
        chunk_size == Min(tw, Len(word))
        rest == SubSeq(word, chunk_size + 1, Len(word))
    IN  [acc |-> IF rest # <<>>
                 THEN finish_line(push_chunk(started, word, chunk_size), tw)
                 ELSE push_chunk(started, word, chunk_size),
         remaining_word |-> rest]

ChunkStep ==
    /\ phase = "chunk_loop"
    /\ remaining_word # <<>>
    /\ Len(w_acc.lines) < MaxRows
    /\ w_acc' = chunk_step(w_acc, remaining_word, text_width).acc
    /\ remaining_word' = chunk_step(w_acc, remaining_word, text_width).remaining_word
    /\ UNCHANGED <<phase, w_word_units, w_unit_chars, w_char_idx,
                   alignVars, wordVars, rowVars, viewVars, gutterVars, appVars, registryVars>>

\* Vec::push on a vector that cannot grow any more: the allocation fails
\* and the process is aborted inside the loop (side_by_side.rs 707,
\* line_wrapping.rs 78).  MaxRows stands for the rows memory holds; a loop
\* that ends never gets there.
AllocFailure ==
    /\ \/ /\ phase = "wrap_split"
          /\ w_char_idx < Len(w_unit_chars)
          /\ saturating_sub(text_width, w_acc.current_width) = 0
       \/ /\ phase = "chunk_loop"
          /\ remaining_word # <<>>
    /\ Len(w_acc.lines) >= MaxRows
    /\ phase' = "wrap_aborted"
    /\ UNCHANGED <<wrapVars, alignVars, wordVars, rowVars, viewVars, gutterVars, appVars, registryVars>>

\* The chunk loop's exit: remaining_word is empty
ChunkExit ==
    /\ phase = "chunk_loop"
    /\ remaining_word = <<>>
    /\ phase' = "wrap_done"
    /\ UNCHANGED <<wrapVars, alignVars, wordVars, rowVars, viewVars, gutterVars, appVars, registryVars>>

WrapNext ==
    \/ PlaceUnit
    \/ EnterHardSplit
    \/ HardSplitWrap
    \/ HardSplitTake
    \/ HardSplitExit
    \/ FinalLines
    \/ ChunkStep
    \/ ChunkExit
    \/ AllocFailure

\* The loops are sequential code: a step that can be taken is taken
SpecWrap == WrapInit /\ [][WrapNext]_vars /\ WF_vars(WrapNext)

\* C6: row formatting terminates and returns rows for every input,
\* text_width = 0 with a non-empty line included: every run of the row
\* loops reaches its return.
C6_RowFormattingTerminates == <>(phase = "wrap_done")

----------------------------------------------------------------------------
(* Claims about the row formatter                                          *)

BuildDone == phase = "fmt_loop" /\ op_i >= Len(aligned)

IsFoldIndicator(row) == \E k \in 1..Len(row) : row[k].style = "fold_indicator"

IsBlankRow(row) == \A k \in 1..Len(row) : \A c \in 1..Len(row[k].text) : row[k].text[c] = " "

UnchangedOp(op) ==
    /\ op.tag = "Both"
    /\ normalize_for_comparison(source[op.s + 1]) = normalize_for_comparison(dest[op.d + 1])

\* Maximal runs of unchanged ops, as pairs << first, last >> of 0-based
\* positions in the op list
MaximalRuns ==
    { r \in (0..(Len(aligned) - 1)) \X (0..(Len(aligned) - 1)) :
        /\ r[1] <= r[2]
        /\ \A k \in r[1]..r[2] : UnchangedOp(aligned[k + 1])
        /\ (r[1] > 0 => ~UnchangedOp(aligned[r[1]]))
        /\ (r[2] + 1 < Len(aligned) => ~UnchangedOp(aligned[r[2] + 2])) }

ChangeBefore(r) == r[1] > 0
ChangeAfter(r) == r[2] + 1 < Len(aligned)
RunLength(r) == r[2] - r[1] + 1

\* The run is long enough to fold: longer than 2*context+1 with a change
\* on both sides, than context+1 with a change on one side, never else
ExceedsThreshold(r) ==
    IF ChangeBefore(r) /\ ChangeAfter(r) THEN RunLength(r) > 2 * CONTEXT_LINES + 1
    ELSE IF ChangeBefore(r) \/ ChangeAfter(r) THEN RunLength(r) > CONTEXT_LINES + 1
    ELSE FALSE

\* C7: a maximal run of unchanged matched lines gets a fold-marker row
\* only if its length exceeds its threshold; a run that does not exceed it
\* is rendered with no fold marker.  Stated of each loop iteration: when
\* an iteration appends a fold marker, the op it stands on belongs to a
\* maximal run that exceeds its threshold.
C7_FoldOnlyAboveThreshold ==
    [][ (/\ phase = "fmt_loop" /\ phase' = "fmt_loop"
         /\ \E k \in (Len(source_visible) + 1)..Len(source_visible') :
                IsFoldIndicator(source_visible'[k]))
        => \E r \in MaximalRuns :
               /\ r[1] <= op_i /\ op_i <= r[2]
               /\ ExceedsThreshold(r) ]_vars

\* The rows of an unchanged line
ContextRows(idx, lines) ==
    create_highlighted_lines(idx + 1, << Segment(lines[idx + 1], FALSE) >>, text_width,
                             gutter_width_of(source, dest), max_line_digits_of(source, dest),
                             "default", "default")

ContextRow(idx, lines) == ContextRows(idx, lines)[1]

\* What C8 says a folded run looks like in one column: context rows on
\* each side that has a change, one fold marker between them
FoldedBlock(r, side) ==
    LET shown_before == IF ChangeBefore(r) THEN CONTEXT_LINES ELSE 0
        shown_after == IF ChangeAfter(r) THEN CONTEXT_LINES ELSE 0
    IN  [k \in 1..shown_before |->
            IF side = "s" THEN ContextRow(aligned[r[1] + k].s, source)
            ELSE ContextRow(aligned[r[1] + k].d, dest)]
        \o << create_fold_indicator(RunLength(r) - shown_before - shown_after, text_width,
                                    gutter_width_of(source, dest)) >>
        \o [k \in 1..shown_after |->
               IF side = "s" THEN ContextRow(aligned[r[2] + 1 - shown_after + k].s, source)
               ELSE ContextRow(aligned[r[2] + 1 - shown_after + k].d, dest)]

\* C8: with folding enabled, a maximal run of unchanged matched lines,
\* each fitting in one row, whose length exceeds its threshold is rendered
\* as 3 context rows on each side that has an adjacent change plus exactly
\* one fold-marker row, identical on both columns, whose hidden count is
\* the run length minus the context rows shown.  The rows of the run are
\* the rows that follow those of the ops before it.
C8_FoldedRunRows ==
    (BuildDone /\ fold_unchanged) =>
        \A r \in MaximalRuns :
            (/\ ExceedsThreshold(r)
             /\ \A k \in r[1]..r[2] :
                    /\ Len(ContextRows(aligned[k + 1].s, source)) = 1
                    /\ Len(ContextRows(aligned[k + 1].d, dest)) = 1)
            => LET rows_before ==
                       Len(build_aligned_lines(SubSeq(aligned, 1, r[1]), source, dest,
                                               text_width, fold_unchanged).source_visible)
                   rows_after ==
                       Len(build_aligned_lines_from(Visible(<<>>, <<>>), aligned, source,
                               dest, r[2] + 1, text_width, fold_unchanged).source_visible)
                   src_block == FoldedBlock(r, "s")
                   dst_block == FoldedBlock(r, "d")
               IN  /\ Len(source_visible) = rows_before + Len(src_block) + rows_after
                   /\ SubSeq(source_visible, rows_before + 1, rows_before + Len(src_block))
                          = src_block
                   /\ SubSeq(dest_visible, rows_before + 1, rows_before + Len(dst_block))
                          = dst_block

\* rows is full without its first `dropped` rows, cut to at most height
ShowsFrom(rows, full, dropped, height) ==
    /\ Len(rows) = Min(height, saturating_sub(Len(full), dropped))
    /\ \A k \in 1..Len(rows) : rows[k] = full[k + dropped]

\* The step from the full rows to the displayed rows
ShowStep == phase = "fmt_loop" /\ phase' = "fmt_shown"

\* C9 as stated: the rows displayed are the full row sequence with its
\* first scroll_offset rows removed, cut to at most available_height rows,
\* on both columns; a scroll_offset at or past the end gives no rows.
C9_DropsScrollOffsetRows ==
    [][ ShowStep =>
            /\ ShowsFrom(source_visible', source_visible, diff_scroll_offset',
                         available_height')
            /\ ShowsFrom(dest_visible', dest_visible, diff_scroll_offset',
                         available_height')
            /\ (diff_scroll_offset' >= Len(source_visible) =>
                    source_visible' = <<>> /\ dest_visible' = <<>>) ]_vars

\* The number of rows the scroll removes: the offset, held to the index of
\* the last row
DroppedRows(rows, offset) ==
    IF rows = 0 THEN 0 ELSE IF offset < rows - 1 THEN offset ELSE rows - 1

\* C9 amended: the rows displayed are the full row sequence with its first
\* min(scroll_offset, rows - 1) rows removed (none removed when there are
\* no rows), cut to at most available_height rows, on both columns.
C9_DropsClampedOffsetRows ==
    [][ ShowStep =>
            /\ ShowsFrom(source_visible', source_visible,
                         DroppedRows(Len(source_visible), diff_scroll_offset'),
                         available_height')
            /\ ShowsFrom(dest_visible', dest_visible,
                         DroppedRows(Len(source_visible), diff_scroll_offset'),
                         available_height') ]_vars

\* The full rows of the render whose result the state holds
FullRows == build_aligned_lines(aligned, source, dest, text_width, fold_unchanged)

\* C9 witness: a scroll offset past the end of at least two rows, and the
\* last row is what both columns show.
C9_Witness ==
    /\ phase = "fmt_shown"
    /\ diff_scroll_offset >= 2
    /\ available_height >= 1
    /\ Len(source_visible) = 1
    /\ Len(dest_visible) = 1
    /\ Len(FullRows.source_visible) >= 2
    /\ diff_scroll_offset >= Len(FullRows.source_visible)
    /\ source_visible = << FullRows.source_visible[Len(FullRows.source_visible)] >>
    /\ dest_visible = << FullRows.dest_visible[Len(FullRows.dest_visible)] >>

----------------------------------------------------------------------------
(* Claims about the rows of one line                                       *)

\* create_highlighted_lines has returned: its rows are w_acc.lines.  (The
\* chunk loop of the widget leaves its last chunk in current_line_spans.)
HighlightedLinesReturned == phase = "wrap_done" /\ w_acc.current_line_spans = <<>>

IsSpaces(text) == \A c \in 1..Len(text) : text[c] = " "

\* C11 as stated: when a line wraps onto several rows, only the first
\* row's gutter shows the line number; every continuation row's gutter is
\* made of spaces only and has the same width.
C11_ContinuationGutterBlank ==
    HighlightedLinesReturned =>
        \A k \in 1..Len(w_acc.lines) :
            /\ Len(w_acc.lines[k][1].text) = Len(WrapGutter)
            /\ (k = 1 => w_acc.lines[k][1].text = WrapGutter)
            /\ (k > 1 => IsSpaces(w_acc.lines[k][1].text))

\* C11 amended: when a line wraps onto several rows, every row, the
\* continuation rows included, has the gutter of the first row: the line
\* number right-aligned and a space.
C11_EveryRowGutterNumbered ==
    HighlightedLinesReturned =>
        \A k \in 1..Len(w_acc.lines) :
            /\ w_acc.lines[k][1].style = "gutter"
            /\ w_acc.lines[k][1].text = WrapGutter

\* C11 witness: a line returned on three rows.
C11_Witness ==
    /\ HighlightedLinesReturned
    /\ text_width >= 1
    /\ Len(w_acc.lines) = 3

\* A line that is one token: not empty, no whitespace in it
OneToken(ln) == ln # <<>> /\ \A c \in 1..Len(ln) : ~IsWhitespace(ln[c])

\* The text of a row that is not gutter, padding or margin
RECURSIVE row_content(_)
row_content(row) ==
    IF row = <<>> THEN <<>>
    ELSE IF Head(row).style = "gutter" \/ IsSpaces(Head(row).text) THEN row_content(Tail(row))
    ELSE Head(row).text \o row_content(Tail(row))

\* C12: an unchanged line that is one token of n characters, formatted
\* with 0 < text_width = w < n, yields exactly ceil(n/w) rows; the content
\* of every row but the last is the next w characters of the line, that of
\* the last row is the remainder.
C12_HardSplitRows ==
    (HighlightedLinesReturned /\ OneToken(line)
         /\ 0 < text_width /\ text_width < Len(line)) =>
        /\ Len(w_acc.lines) = (Len(line) + text_width - 1) \div text_width
        /\ \A k \in 1..Len(w_acc.lines) :
               row_content(w_acc.lines[k])
                   = SubSeq(line, (k - 1) * text_width + 1,
                            Min(k * text_width, Len(line)))

\* C12 witness: a four-character token returned at width 3, on two rows
\* with three characters and one.
C12_Witness ==
    /\ HighlightedLinesReturned
    /\ OneToken(line)
    /\ Len(line) = 4
    /\ text_width = 3
    /\ Len(w_acc.lines) = 2
    /\ Len(row_content(w_acc.lines[1])) = 3
    /\ Len(row_content(w_acc.lines[2])) = 1

----------------------------------------------------------------------------
(* Claims about the rows of the two columns                                *)

\* The width of a row's text spans: all but the gutter, which comes first,
\* and the right margin, which comes last
RowTextWidth(row) == content_width(SubSeq(row, 2, Len(row) - 1))

\* C13: every row emitted by the formatter for a text_width >= 1, wrapped
\* content rows, blank padding rows and fold-marker rows alike, has text
\* spans (content plus padding, without gutter and right margin) whose
\* combined width is exactly text_width.
C13_RowsFillTextWidth ==
    (phase \in {"fmt_loop", "fmt_shown"}) =>
        /\ \A k \in 1..Len(source_visible) : RowTextWidth(source_visible[k]) = text_width
        /\ \A k \in 1..Len(dest_visible) : RowTextWidth(dest_visible[k]) = text_width

----------------------------------------------------------------------------
(* Further claims about align_lines                                        *)

IsBlank(ln) == \A c \in 1..Len(ln) : IsWhitespace(ln[c])

\* The whitespace-separated tokens of a line
Tokens(ln) == SplitWhitespaceSet(ln)

\* Token-set Jaccard similarity above 0.3
JaccardSimilar(a, b) ==
    /\ Tokens(a) \cup Tokens(b) # {}
    /\ 10 * Cardinality(Tokens(a) \cap Tokens(b)) > 3 * Cardinality(Tokens(a) \cup Tokens(b))

\* The two lines are equal, both blank, or similar
EqualBlankOrSimilar(a, b) ==
    \/ a = b
    \/ IsBlank(a) /\ IsBlank(b)
    \/ JaccardSimilar(a, b)

\* Every line of source pairs with the line of dest at the same index
PairwiseAligned ==
    /\ Len(source) = Len(dest)
    /\ \A k \in 1..Len(source) : EqualBlankOrSimilar(source[k], dest[k])

\* C14: when source and dest have the same length n and at every index the
\* two lines are equal, both blank or similar, align_lines returns exactly
\* [Both(0,0), Both(1,1), ..., Both(n-1,n-1)].
C14_PairwiseInputsAlignDiagonally ==
    (phase = "align_done" /\ PairwiseAligned) =>
        aligned = [k \in 1..Len(source) |-> Both(k - 1, k - 1)]

\* C14 witness: three lines, an equal pair, a blank pair and a similar pair
\* that is not equal, aligned on the diagonal.
C14_Witness ==
    /\ phase = "align_done"
    /\ Len(source) = 3
    /\ PairwiseAligned
    /\ \E k \in 1..3 : IsBlank(source[k])
    /\ \E k \in 1..3 : source[k] # dest[k] /\ ~IsBlank(source[k])
    /\ \E k \in 1..3 : source[k] = dest[k] /\ ~IsBlank(source[k])
    /\ aligned = << Both(0, 0), Both(1, 1), Both(2, 2) >>

\* C15: in the list returned by align_lines the source indices carried by
\* Both and SourceOnly ops appear in strictly increasing order.
C15_SourceIndicesIncreasing ==
    phase = "align_done" => StrictlyIncreasing(src_indices(aligned))

\* C15 witness: a returned list with three source indices, a one-sided op
\* of each kind and a forced blank match that the sort had to move behind
\* a source line.
C15_Witness ==
    /\ phase = "align_done"
    /\ Len(src_indices(aligned)) = 3
    /\ \E k \in 1..Len(aligned) : aligned[k].tag = "SourceOnly"
    /\ \E k \in 1..Len(aligned) : aligned[k].tag = "DestOnly"
    /\ \E k \in 2..Len(aligned) :
           /\ aligned[k].tag = "Both"
           /\ aligned[k].s = aligned[k].d
           /\ IsBlank(source[aligned[k].s + 1])
           /\ IsBlank(dest[aligned[k].d + 1])

----------------------------------------------------------------------------
(* Further claims about the word differ                                    *)

Flags(diffs) == [k \in 1..Len(diffs) |-> diffs[k].changed]

\* At most three segments, at most one of them changed, in the order
\* unchanged prefix, changed middle, unchanged suffix, each optional
PrefixMiddleSuffix(diffs) ==
    /\ Len(diffs) <= 3
    /\ Cardinality({ k \in 1..Len(diffs) : diffs[k].changed }) <= 1
    /\ (Len(diffs) = 3 => Flags(diffs) = << FALSE, TRUE, FALSE >>)

\* C16: for all strings line and other, compute_word_diff_source and
\* compute_word_diff_dest each return at most 3 segments, at most one of
\* them marked changed, with the flags in the order unchanged prefix,
\* changed middle, unchanged suffix (each optional).
C16_AtMostThreeSegments ==
    /\ (phase \in {"wd_source", "wd_done"} => PrefixMiddleSuffix(src_diffs))
    /\ (phase = "wd_done" => PrefixMiddleSuffix(dest_diffs))

\* C16 witness: the source call returned prefix, middle and suffix, the
\* dest call an unchanged prefix and a changed rest.
C16_Witness ==
    /\ phase = "wd_done"
    /\ Flags(src_diffs) = << FALSE, TRUE, FALSE >>
    /\ Flags(dest_diffs) = << FALSE, TRUE >>

----------------------------------------------------------------------------
(* elements/split_diff_view.rs : SplitDiffViewState::get_gutter_width and  *)
(* its cache, called any number of times on one state                      *)

\* The line counts the calls are made with: both sides of every change of
\* digit count up to four digits
GutterCounts == { 0, 1, 9, 10, 11, 99, 100, 101, 999, 1000, 2000 }

\* DEFAULT_LAYOUT_CONSTANTS (split_diff_view.rs 143-164)
min_line_digits == 1
gutter_space_after_digits == 1

\* calculate_digit_count: divide by 10 until nothing is left
RECURSIVE digit_loop(_, _)
digit_loop(n, digits) == IF n > 0 THEN digit_loop(n \div 10, digits + 1) ELSE digits

calculate_digit_count(num) == IF num = 0 THEN 1 ELSE digit_loop(num, 0)

\* A cache test that compares the source count only
cache_matches_mutant(cache, source_line_count, dest_line_count) ==
    /\ cache # <<>>
    /\ cache[1] = source_line_count

\* "Check cache validity" (split_diff_view.rs 271-276)
cache_matches(cache, source_line_count, dest_line_count) ==
    /\ cache # <<>>
    /\ cache[1] = source_line_count
    /\ cache[2] = dest_line_count

\* "Calculate and cache" (split_diff_view.rs 278-288): the cache entry
\* (source_lines, dest_lines, gutter_width, max_line_digits)
computed_gutter(source_line_count, dest_line_count) ==
    LET max_line_num == Max(source_line_count, dest_line_count)
        max_line_digits == IF max_line_num = 0 THEN min_line_digits
                           ELSE calculate_digit_count(max_line_num)
    IN  << source_line_count, dest_line_count,
           max_line_digits + gutter_space_after_digits, max_line_digits >>

GutterInit ==
    /\ phase = "gutter"
    /\ GutterIdle
    /\ AppIdle
    /\ RegistryIdle
    /\ WrapIdle
    /\ source = <<>> /\ dest = <<>> /\ aligned = <<>>
    /\ line = <<>> /\ other = <<>> /\ src_diffs = <<>> /\ dest_diffs = <<>>
    /\ op_i = 0 /\ source_visible = <<>> /\ dest_visible = <<>>
    /\ text_width = 0 /\ fold_unchanged = FALSE
    /\ diff_scroll_offset = 0 /\ available_height = 0

\* A call that finds its counts in the cache: (cached_width, cached_digits)
GetGutterWidthCached ==
    /\ phase = "gutter"
    /\ \E source_line_count \in GutterCounts, dest_line_count \in GutterCounts :
          /\ cache_matches(cached_gutter_width, source_line_count, dest_line_count)
          /\ gutter_call' = [source_line_count |-> source_line_count,
                             dest_line_count |-> dest_line_count, cached |-> TRUE]
          /\ gutter_result' = << cached_gutter_width[3], cached_gutter_width[4] >>
    /\ UNCHANGED <<phase, cached_gutter_width, alignVars, wordVars, rowVars, viewVars, wrapVars, appVars, registryVars>>

\* A call that computes, caches and returns (gutter_width, max_line_digits)
GetGutterWidthComputed ==
    /\ phase = "gutter"
    /\ \E source_line_count \in GutterCounts, dest_line_count \in GutterCounts :
          /\ ~cache_matches(cached_gutter_width, source_line_count, dest_line_count)
          /\ gutter_call' = [source_line_count |-> source_line_count,
                             dest_line_count |-> dest_line_count, cached |-> FALSE]
          /\ cached_gutter_width' = computed_gutter(source_line_count, dest_line_count)
          /\ gutter_result' = << computed_gutter(source_line_count, dest_line_count)[3],
                                 computed_gutter(source_line_count, dest_line_count)[4] >>
    /\ UNCHANGED <<phase, alignVars, wordVars, rowVars, viewVars, wrapVars, appVars, registryVars>>

GutterNext ==
    \/ GetGutterWidthCached
    \/ GetGutterWidthComputed

SpecGutter == GutterInit /\ [][GutterNext]_vars

\* The number of decimal digits of n
RECURSIVE DecimalDigits(_)
DecimalDigits(n) == IF n < 10 THEN 1 ELSE 1 + DecimalDigits(n \div 10)

\* C17: in any sequence of get_gutter_width calls on one state with the
\* default layout constants, every call returns, for its own counts,
\* max_line_digits = the number of decimal digits of max(source_count,
\* dest_count) (1 when that is 0) and gutter_width = max_line_digits + 1,
\* freshly computed or served from the cache.
C17_GutterWidthOfOwnCounts ==
    (phase = "gutter" /\ gutter_call # <<>>) =>
        LET larger == IF gutter_call.source_line_count > gutter_call.dest_line_count
                      THEN gutter_call.source_line_count
                      ELSE gutter_call.dest_line_count
        IN  /\ gutter_result[2] = DecimalDigits(larger)
            /\ gutter_result[1] = DecimalDigits(larger) + 1

\* C17 witness: a call served from the cache that was filled with counts
\* of three digits.
C17_Witness ==
    /\ phase = "gutter"
    /\ gutter_call # <<>>
    /\ gutter_call.cached
    /\ gutter_call.source_line_count = 100
    /\ gutter_call.dest_line_count = 101
    /\ gutter_result = << 4, 3 >>

----------------------------------------------------------------------------
(* render_side_by_side as a whole, called twice on one app state for the   *)
(* same area                                                               *)

\* The lines of the files that are rendered
RenderLineSet == { <<"a">>, <<"a", " ", "b">> }

RenderInit ==
    /\ phase = "render_idle"
    /\ source \in SeqsUpTo(RenderLineSet, MaxPipeLines)
    /\ dest \in SeqsUpTo(RenderLineSet, MaxPipeLines)
    /\ text_width \in 1..MaxWidth
    /\ fold_unchanged \in BOOLEAN
    /\ diff_scroll_offset \in 0..MaxScroll
    /\ available_height \in 0..MaxHeight
    /\ aligned = <<>> /\ op_i = 0 /\ source_visible = <<>> /\ dest_visible = <<>>
    /\ line = <<>> /\ other = <<>> /\ src_diffs = <<>> /\ dest_diffs = <<>>
    /\ WrapIdle
    /\ GutterIdle
    /\ AppIdle
    /\ RegistryIdle

\* A render that stores the clamped offset back in the app
diff_scroll_offset_after_mutant(offset, source_rows) ==
    applied_scroll_offset(offset, source_rows)

\* app.diff_scroll_offset after render_side_by_side: app is borrowed as
\* &App, and the clamped value is the local scroll_offset (52-55)
diff_scroll_offset_after(offset, source_rows) == offset

\* One call: align, build, scroll, truncate (46-63)
RenderSideBySide ==
    /\ phase \in { "render_idle", "rendered" }
    /\ LET full == build_aligned_lines(align_lines(source, dest), source, dest,
                                       text_width, fold_unchanged)
       IN  /\ source_visible' = scroll_and_truncate(full.source_visible, diff_scroll_offset,
                                                    available_height, full.source_visible)
           /\ dest_visible' = scroll_and_truncate(full.dest_visible, diff_scroll_offset,
                                                  available_height, full.source_visible)
           /\ diff_scroll_offset' = diff_scroll_offset_after(diff_scroll_offset,
                                                             full.source_visible)
    /\ phase' = IF phase = "render_idle" THEN "rendered" ELSE "rendered_again"
    /\ UNCHANGED <<op_i, alignVars, wordVars, text_width, fold_unchanged, available_height, wrapVars, gutterVars, appVars, registryVars>>

RenderNext == RenderSideBySide

SpecRender == RenderInit /\ [][RenderNext]_vars

SecondRender == phase = "rendered" /\ phase' = "rendered_again"

----------------------------------------------------------------------------
(* Claims about blank lines after removed or added lines                   *)

BlankBoth(op) ==
    /\ op.tag = "Both"
    /\ IsBlank(source[op.s + 1])
    /\ IsBlank(dest[op.d + 1])

\* C19: in the list align_lines returns, no SourceOnly op is immediately
\* followed by a Both op whose source line and dest line are both blank,
\* and no DestOnly op is immediately followed by one either.
C19_NoBlankBothAfterOneSided ==
    phase = "align_done" =>
        \A k \in 1..(Len(aligned) - 1) :
            aligned[k].tag \in { "SourceOnly", "DestOnly" } => ~BlankBoth(aligned[k + 1])

----------------------------------------------------------------------------
(* Claims about the number of paired lines                                 *)

NoBlankLine == (\A k \in 1..Len(source) : ~IsBlank(source[k])) /\ (\A k \in 1..Len(dest) : ~IsBlank(dest[k]))

EqualOrSimilar(a, b) == a = b \/ JaccardSimilar(a, b)

\* The size of the largest order-preserving one-to-one pairing of the
\* first i source lines with the first j dest lines
RECURSIVE LargestPairing(_, _)
LargestPairing(i, j) ==
    IF i = 0 \/ j = 0 THEN 0
    ELSE LET skip == Max(LargestPairing(i - 1, j), LargestPairing(i, j - 1))
         IN  IF EqualOrSimilar(source[i], dest[j])
             THEN Max(skip, LargestPairing(i - 1, j - 1) + 1)
             ELSE skip

BothCount == Cardinality({ k \in 1..Len(aligned) : aligned[k].tag = "Both" })

\* C20: for two files without a blank line, the number of Both ops that
\* align_lines returns is the size of the largest order-preserving
\* one-to-one pairing of source lines with dest lines whose pairs are
\* equal or similar.
C20_BothCountIsLargestPairing ==
    (phase = "align_done" /\ NoBlankLine) =>
        BothCount = LargestPairing(Len(source), Len(dest))

\* C20 witness: three lines on each side, none blank, two of them paired,
\* one pair of lines that are similar and not equal.
C20_Witness ==
    /\ phase = "align_done"
    /\ NoBlankLine
    /\ Len(source) = MaxLines
    /\ Len(dest) = MaxLines
    /\ BothCount = 2
    /\ \E k \in 1..Len(aligned) :
          /\ aligned[k].tag = "Both"
          /\ source[aligned[k].s + 1] # dest[aligned[k].d + 1]

----------------------------------------------------------------------------
(* Claims about which lines are paired                                     *)

\* Whitespace-only lines count as the empty line
BlankNormalized(ln) == IF IsBlank(ln) THEN <<>> ELSE ln

\* C21: every Both(i, j) that align_lines returns pairs two lines that are
\* equal after blank-normalization or whose token sets have Jaccard
\* similarity above 0.3; lines that fail both tests are never paired.
C21_PairedLinesEqualOrSimilar ==
    phase = "align_done" =>
        \A k \in 1..Len(aligned) :
            aligned[k].tag = "Both" =>
                \/ BlankNormalized(source[aligned[k].s + 1]) = BlankNormalized(dest[aligned[k].d + 1])
                \/ JaccardSimilar(source[aligned[k].s + 1], dest[aligned[k].d + 1])

\* C21 witness: a returned list with a pair of similar, unequal lines and
\* a one-sided op for a line that has no partner.
C21_Witness ==
    /\ phase = "align_done"
    /\ \E k \in 1..Len(aligned) :
          /\ aligned[k].tag = "Both"
          /\ source[aligned[k].s + 1] # dest[aligned[k].d + 1]
          /\ JaccardSimilar(source[aligned[k].s + 1], dest[aligned[k].d + 1])
    /\ \E k \in 1..Len(aligned) :
          /\ aligned[k].tag = "SourceOnly"
          /\ ~IsBlank(source[aligned[k].s + 1])
    /\ \E k \in 1..Len(aligned) :
          /\ aligned[k].tag = "DestOnly"
          /\ ~IsBlank(dest[aligned[k].d + 1])

\* C28: every Both(i, j) that align_lines returns for a blank source line
\* and a blank dest line has i = j.
C28_BlankPairsSamePosition ==
    phase = "align_done" =>
        \A k \in 1..Len(aligned) : BlankBoth(aligned[k]) => aligned[k].s = aligned[k].d

\* C28 witness: blank lines at different positions of the two files, one
\* blank pair at a common position, and a blank line left one-sided.
C28_Witness ==
    /\ phase = "align_done"
    /\ \E k \in 1..Len(aligned) : BlankBoth(aligned[k]) /\ aligned[k].s = aligned[k].d
    /\ \E k \in 1..Len(aligned) :
          /\ aligned[k].tag = "SourceOnly"
          /\ IsBlank(source[aligned[k].s + 1])
          /\ \E m \in 1..Len(aligned) :
                /\ aligned[m].tag = "DestOnly"
                /\ IsBlank(dest[aligned[m].d + 1])
                /\ aligned[m].d # aligned[k].s

----------------------------------------------------------------------------
(* Claims about the line numbers of the two columns                        *)

\* The gutter texts of the numbered rows of a column, one per run of rows
\* with the same number
RECURSIVE NumberedLines(_, _)
NumberedLines(rows, last) ==
    IF rows = <<>> THEN <<>>
    ELSE LET gutter == Head(rows)[1].text
         IN  IF IsSpaces(gutter) \/ IsFoldIndicator(Head(rows))
             THEN NumberedLines(Tail(rows), <<>>)
             ELSE (IF gutter = last THEN <<>> ELSE << gutter >>)
                  \o NumberedLines(Tail(rows), gutter)

\* The gutters of lines 1..n of a file
LineGutters(n) == [k \in 1..n |-> format_gutter(k, max_line_digits_of(source, dest))]

CoversInOrder ==
    /\ ExactlyOnce(src_indices(aligned), Len(source))
    /\ ExactlyOnce(dst_indices(aligned), Len(dest))
    /\ StrictlyIncreasing(src_indices(aligned))
    /\ StrictlyIncreasing(dst_indices(aligned))

----------------------------------------------------------------------------
(* managers/split_diff/diff_algorithms.rs : the destination-side differs   *)
(* of the widget library, diff_chars_dest and compute_word_diff_dest       *)

LOOKAHEAD_LIMIT == 5
WORD_DIFF_THRESHOLD == 2

\* str::find: the first position (from 0) where needle starts, NoIdx for
\* None
str_find(haystack, needle) ==
    LET starts == { pos \in 0..(Len(haystack) - Len(needle)) :
                      SubSeq(haystack, pos + 1, pos + Len(needle)) = needle }
    IN  IF starts = {} THEN NoIdx ELSE CHOOSE pos \in starts : \A q \in starts : pos <= q

\* str::ends_with
ends_with(s, suffix) ==
    /\ Len(suffix) <= Len(s)
    /\ SubSeq(s, Len(s) - Len(suffix) + 1, Len(s)) = suffix

\* The segments diff_chars_dest pushes for the two middle parts
\* (diff_algorithms.rs 185-221)
diff_chars_dest_middle(line_middle, other_middle) ==
    LET pos == str_find(other_middle, line_middle)
    IN  IF line_middle = <<>> /\ other_middle # <<>>
        THEN << Segment(other_middle, TRUE) >>
        ELSE IF line_middle = <<>> THEN <<>>
        ELSE IF pos = 0
        THEN << Segment(line_middle, FALSE) >>
             \o (IF Len(other_middle) > Len(line_middle)
                 THEN << Segment(SubSeq(other_middle, Len(line_middle) + 1, Len(other_middle)), TRUE) >>
                 ELSE <<>>)
        ELSE IF pos # NoIdx
        THEN << Segment(SubSeq(other_middle, 1, pos), TRUE), Segment(line_middle, FALSE) >>
             \o (IF pos + Len(line_middle) < Len(other_middle)
                 THEN << Segment(SubSeq(other_middle, pos + Len(line_middle) + 1, Len(other_middle)), TRUE) >>
                 ELSE <<>>)
        ELSE IF starts_with(other_middle, line_middle)
        THEN << Segment(line_middle, FALSE) >>
             \o (IF Len(other_middle) > Len(line_middle)
                 THEN << Segment(SubSeq(other_middle, Len(line_middle) + 1, Len(other_middle)), TRUE) >>
                 ELSE <<>>)
        ELSE IF starts_with(line_middle, other_middle)
        THEN << Segment(other_middle, FALSE) >>
             \o (IF Len(line_middle) > Len(other_middle)
                 THEN << Segment(SubSeq(line_middle, Len(other_middle) + 1, Len(line_middle)), TRUE) >>
                 ELSE <<>>)
        ELSE IF ends_with(other_middle, line_middle)
        THEN << Segment(SubSeq(other_middle, 1, Len(other_middle) - Len(line_middle)), TRUE),
                Segment(line_middle, FALSE) >>
        ELSE << Segment(line_middle, TRUE) >>

\* The result of diff_chars_dest for given prefix and suffix lengths
diff_chars_dest_with(line_chars, other_chars, prefix_len, suffix_len) ==
    (IF prefix_len > 0 THEN << Segment(SubSeq(line_chars, 1, prefix_len), FALSE) >> ELSE <<>>)
    \o diff_chars_dest_middle(SubSeq(line_chars, prefix_len + 1, Len(line_chars) - suffix_len),
                              SubSeq(other_chars, prefix_len + 1, Len(other_chars) - suffix_len))
    \o (IF suffix_len > 0
        THEN << Segment(SubSeq(line_chars, Len(line_chars) - suffix_len + 1, Len(line_chars)), FALSE) >>
        ELSE <<>>)

\* diff_chars_dest: the prefix loop (149-157) and the suffix loop
\* (159-172) are the loops of the word differ, run over characters
diff_chars_dest(line_chars, other_chars) ==
    diff_chars_dest_with(line_chars, other_chars,
        common_prefix_len(line_chars, other_chars, 0),
        common_suffix_len(line_chars, other_chars, common_prefix_len(line_chars, other_chars, 0)))

\* The lookahead loops (330-344): the first ahead with
\* words[idx + ahead] = word, 0 for None
found_ahead(word, words, idx) ==
    LET hits == { ahead \in 1..Min(LOOKAHEAD_LIMIT, Len(words) - idx) :
                    idx + ahead < Len(words) /\ words[idx + ahead + 1] = word }
    IN  IF hits = {} THEN 0 ELSE CHOOSE ahead \in hits : \A q \in hits : ahead <= q

\* The while loop of compute_word_diff_dest (323-372)
RECURSIVE word_diff_dest_loop(_, _, _, _)
word_diff_dest_loop(line_words, other_words, line_idx, other_idx) ==
    IF line_idx < Len(line_words) /\ other_idx < Len(other_words)
    THEN IF line_words[line_idx + 1] = other_words[other_idx + 1]
         THEN << Segment(line_words[line_idx + 1], FALSE) >>
              \o word_diff_dest_loop(line_words, other_words, line_idx + 1, other_idx + 1)
         ELSE IF found_ahead(line_words[line_idx + 1], other_words, other_idx) # 0
         THEN << Segment(line_words[line_idx + 1], FALSE) >>
              \o word_diff_dest_loop(line_words, other_words, line_idx + 1,
                     other_idx + found_ahead(line_words[line_idx + 1], other_words, other_idx))
         ELSE IF found_ahead(other_words[other_idx + 1], line_words, line_idx) # 0
         THEN [k \in 1..found_ahead(other_words[other_idx + 1], line_words, line_idx) |->
                  Segment(line_words[line_idx + k], TRUE)]
              \o word_diff_dest_loop(line_words, other_words,
                     line_idx + found_ahead(other_words[other_idx + 1], line_words, line_idx),
                     other_idx + 1)
         ELSE diff_chars_dest(line_words[line_idx + 1], other_words[other_idx + 1])
              \o word_diff_dest_loop(line_words, other_words, line_idx + 1, other_idx + 1)
    ELSE IF line_idx < Len(line_words)
    THEN << Segment(line_words[line_idx + 1], TRUE) >>
         \o word_diff_dest_loop(line_words, other_words, line_idx + 1, other_idx)
    ELSE IF other_idx < Len(other_words)
    THEN word_diff_dest_loop(line_words, other_words, line_idx, other_idx + 1)
    ELSE <<>>

\* usize::abs_diff
abs_diff(a, b) == IF a > b THEN a - b ELSE b - a

\* compute_word_diff_dest of diff_algorithms.rs (the application has a
\* function of the same name in operations/diff.rs)
split_diff_compute_word_diff_dest(ln, oth) ==
    IF ln = oth THEN << Segment(ln, FALSE) >>
    ELSE IF abs_diff(Len(split_inclusive(ln)), Len(split_inclusive(oth))) > WORD_DIFF_THRESHOLD
    THEN diff_chars_dest(ln, oth)
    ELSE word_diff_dest_loop(split_inclusive(ln), split_inclusive(oth), 0, 0)

CharDiffInit ==
    /\ phase = "cd_start"
    /\ line \in SeqsUpTo(Chars, MaxLineLen)
    /\ other \in SeqsUpTo(Chars, MaxLineLen)
    /\ src_diffs = <<>> /\ dest_diffs = <<>>
    /\ source = <<>> /\ dest = <<>> /\ aligned = <<>>
    /\ op_i = 0 /\ source_visible = <<>> /\ dest_visible = <<>>
    /\ text_width = 0 /\ fold_unchanged = FALSE
    /\ diff_scroll_offset = 0 /\ available_height = 0
    /\ WrapIdle
    /\ GutterIdle
    /\ AppIdle
    /\ RegistryIdle

\* diff_chars_dest(line, other)
DiffCharsDest ==
    /\ phase = "cd_start"
    /\ dest_diffs' = diff_chars_dest(line, other)
    /\ phase' = "cd_chars"
    /\ UNCHANGED <<line, other, src_diffs, alignVars, rowVars, viewVars, wrapVars, gutterVars, appVars, registryVars>>

\* compute_word_diff_dest(line, other)
ComputeWordDiffDest ==
    /\ phase = "cd_chars"
    /\ dest_diffs' = split_diff_compute_word_diff_dest(line, other)
    /\ phase' = "cd_words"
    /\ UNCHANGED <<line, other, src_diffs, alignVars, rowVars, viewVars, wrapVars, gutterVars, appVars, registryVars>>

CharDiffNext == DiffCharsDest \/ ComputeWordDiffDest

SpecCharDiff == CharDiffInit /\ [][CharDiffNext]_vars

\* C30: in the widget library's word differ, for all strings line and
\* other, the segment texts returned by diff_chars_dest(line, other) and
\* by compute_word_diff_dest(line, other) concatenate to exactly line.
C30_DestSegmentsReconstructLine ==
    phase \in { "cd_chars", "cd_words" } => segment_text(dest_diffs) = line

----------------------------------------------------------------------------
(* create_highlighted_lines for a list of segments: a line cut at two      *)
(* places, every piece marked changed or unchanged                         *)

HighlightInit ==
    /\ phase = "hl_start"
    /\ line \in SeqsUpTo(Chars, MaxLineLen)
    /\ \E first_cut \in 0..Len(line), flags \in [1..3 -> BOOLEAN] :
          \E second_cut \in first_cut..Len(line) :
              src_diffs = << Segment(SubSeq(line, 1, first_cut), flags[1]),
                             Segment(SubSeq(line, first_cut + 1, second_cut), flags[2]),
                             Segment(SubSeq(line, second_cut + 1, Len(line)), flags[3]) >>
    /\ text_width \in 1..MaxWidth
    /\ other = <<>> /\ dest_diffs = <<>>
    /\ source = <<>> /\ dest = <<>> /\ aligned = <<>>
    /\ op_i = 0 /\ source_visible = <<>> /\ dest_visible = <<>>
    /\ fold_unchanged = FALSE /\ diff_scroll_offset = 0 /\ available_height = 0
    /\ WrapIdle
    /\ GutterIdle
    /\ AppIdle
    /\ RegistryIdle

\* The call of add_modified_line for the source column (side_by_side.rs
\* 428-436), for line number 1 of a file of fewer than ten lines
CreateHighlightedLines ==
    /\ phase = "hl_start"
    /\ source_visible' = create_highlighted_lines(1, src_diffs, text_width, 2, 1,
                             "side_by_side_source_modified_bg", "side_by_side_source_highlight")
    /\ phase' = "hl_done"
    /\ UNCHANGED <<op_i, dest_visible, alignVars, wordVars, viewVars, wrapVars, gutterVars, appVars, registryVars>>

HighlightNext == CreateHighlightedLines

SpecHighlight == HighlightInit /\ [][HighlightNext]_vars

\* The text of a row between its gutter and its right margin
RowText(row) == segment_text(SubSeq(row, 2, Len(row) - 1))

\* The rows carry exactly the text, each row followed by padding (spaces,
\* possibly none) up to the right margin
RECURSIVE RowsCarry(_, _)
RowsCarry(rows, text) ==
    IF rows = <<>> THEN text = <<>>
    ELSE \E n \in 0..Min(Len(text), Len(RowText(Head(rows)))) :
            /\ SubSeq(RowText(Head(rows)), 1, n) = SubSeq(text, 1, n)
            /\ IsSpaces(SubSeq(RowText(Head(rows)), n + 1, Len(RowText(Head(rows)))))
            /\ RowsCarry(Tail(rows), SubSeq(text, n + 1, Len(text)))

\* C26: for any segment list and text_width >= 1, the contents of the
\* rows create_highlighted_lines returns (gutter, padding and right margin
\* left out), concatenated in order, are exactly the concatenation of the
\* segment texts: wrapping and hard-splitting drop, duplicate and reorder
\* no character.
C26_RowsReproduceSegments ==
    (phase = "hl_done" /\ text_width >= 1) =>
        RowsCarry(source_visible, segment_text(src_diffs))

\* C26 witness: three segments with words and whitespace, returned on
\* three rows or more, a unit hard-split among them.
C26_Witness ==
    /\ phase = "hl_done"
    /\ text_width = 2
    /\ Len(line) = MaxLineLen
    /\ \A k \in 1..3 : src_diffs[k].text # <<>>
    /\ src_diffs[1].changed # src_diffs[2].changed
    /\ \E c \in 1..Len(line) : IsWhitespace(line[c])
    /\ \E c \in 1..(Len(line) - 2) : \A m \in c..(c + 2) : ~IsWhitespace(line[m])
    /\ Len(source_visible) >= 3

----------------------------------------------------------------------------
(* core/app.rs : the selection in the two diff lists                       *)

MaxDiffs == 2

\* The diff entries a refresh can find
DiffEntrySet == { "x", "y" }

\* App::current_diffs
current_diffs(a) ==
    IF a.view_mode = "SharedToProject" THEN a.shared_to_project_diffs
    ELSE a.project_to_shared_diffs

\* App::current_index
current_index(a) ==
    IF a.view_mode = "SharedToProject" THEN a.shared_to_project_index
    ELSE a.project_to_shared_index

\* App::set_current_index
set_current_index(a, index) ==
    IF a.view_mode = "SharedToProject" THEN [a EXCEPT !.shared_to_project_index = index]
    ELSE [a EXCEPT !.project_to_shared_index = index]

\* A refresh that keeps the index whatever the new length
reset_index_mutant(index, len) == index

\* "Reset indices if they're out of bounds" (app.rs 343-349)
reset_index(index, len) == IF index >= len THEN 0 ELSE index

\* App::clear_diff_cache: the side-by-side view is closed, its files are
\* dropped (None), the scroll offset is 0
ClearDiffCache(a) ==
    /\ app' = [a EXCEPT !.show_side_by_side = FALSE]
    /\ source' = <<>>
    /\ dest' = <<>>
    /\ diff_scroll_offset' = 0
    /\ UNCHANGED <<phase, aligned, wordVars, rowVars, text_width, fold_unchanged, available_height, wrapVars, gutterVars, registryVars>>

\* The state App::new returns: the lists of the first refresh, found only
\* with a configuration that has mappings for the project
AppInit ==
    /\ phase = "app"
    /\ \E project_config \in { "None", "NoMappings", "Mappings" } :
       \E s2p \in SeqsUpTo(DiffEntrySet, MaxDiffs), p2s \in SeqsUpTo(DiffEntrySet, MaxDiffs) :
          /\ project_config # "Mappings" => s2p = <<>> /\ p2s = <<>>
          /\ app = [AppNew(project_config) EXCEPT !.shared_to_project_diffs = s2p,
                                                   !.project_to_shared_diffs = p2s]
    /\ source = <<>> /\ dest = <<>> /\ aligned = <<>>
    /\ line = <<>> /\ other = <<>> /\ src_diffs = <<>> /\ dest_diffs = <<>>
    /\ op_i = 0 /\ source_visible = <<>> /\ dest_visible = <<>>
    /\ text_width = 0 /\ fold_unchanged = TRUE
    /\ diff_scroll_offset = 0 /\ available_height = 0
    /\ WrapIdle
    /\ GutterIdle
    /\ RegistryIdle

\* App::select_previous
SelectPrevious ==
    /\ phase = "app"
    /\ IF current_index(app) > 0
       THEN ClearDiffCache(set_current_index(app, current_index(app) - 1))
       ELSE UNCHANGED vars

\* App::select_next
SelectNext ==
    /\ phase = "app"
    /\ IF current_index(app) < saturating_sub(Len(current_diffs(app)), 1)
       THEN ClearDiffCache(set_current_index(app, current_index(app) + 1))
       ELSE UNCHANGED vars

\* App::toggle_view_mode
ToggleViewMode ==
    /\ phase = "app"
    /\ ClearDiffCache([app EXCEPT !.view_mode = IF @ = "SharedToProject" THEN "ProjectToShared"
                                                ELSE "SharedToProject"])

\* App::refresh_diffs: nothing without a project configuration; the lists
\* cleared, and nothing else, without mappings; otherwise the lists the
\* diff engine finds, the indices reset, the cache cleared
RefreshDiffs ==
    /\ phase = "app"
    /\ CASE app.project_config = "None" -> UNCHANGED vars
         [] app.project_config = "NoMappings" ->
                /\ app' = [app EXCEPT !.shared_to_project_diffs = <<>>,
                                      !.project_to_shared_diffs = <<>>]
                /\ UNCHANGED <<phase, alignVars, wordVars, rowVars, viewVars, wrapVars, gutterVars, registryVars>>
         [] OTHER ->
                \E s2p \in SeqsUpTo(DiffEntrySet, MaxDiffs), p2s \in SeqsUpTo(DiffEntrySet, MaxDiffs) :
                    ClearDiffCache([app EXCEPT
                        !.shared_to_project_diffs = s2p,
                        !.project_to_shared_diffs = p2s,
                        !.shared_to_project_index = reset_index(@, Len(s2p)),
                        !.project_to_shared_index = reset_index(@, Len(p2s))])

AppNext == SelectPrevious \/ SelectNext \/ ToggleViewMode \/ RefreshDiffs

SpecApp == AppInit /\ [][AppNext]_vars

IndexInList(index, list) == IF list = <<>> THEN index = 0 ELSE index < Len(list)

\* C22: after any sequence of select_previous, select_next,
\* toggle_view_mode and refresh_diffs (a refresh may find any lists, empty
\* ones included), the selected index of each list is smaller than the
\* length of that list, or 0 when the list is empty.
C22_SelectedIndexInList ==
    phase = "app" =>
        /\ IndexInList(app.shared_to_project_index, app.shared_to_project_diffs)
        /\ IndexInList(app.project_to_shared_index, app.project_to_shared_diffs)

\* C22 witness: the last entry of the second list is selected, the first
\* list is empty with its index at 0.
C22_Witness ==
    /\ phase = "app"
    /\ app.view_mode = "ProjectToShared"
    /\ app.shared_to_project_diffs = <<>>
    /\ app.shared_to_project_index = 0
    /\ Len(app.project_to_shared_diffs) = MaxDiffs
    /\ app.project_to_shared_index = MaxDiffs - 1

----------------------------------------------------------------------------
(* core/app.rs, main.rs : scrolling the side-by-side view.  One action is  *)
(* one turn of the event loop: the key is handled, then the frame is drawn *)

MaxOffset == 11

\* The amounts main.rs passes: 1 for Up and Down, 10 for PageUp and PageDown
ScrollAmounts == { 1, 10 }

\* App::scroll_up
scroll_up(offset, amount) == saturating_sub(offset, amount)

\* App::scroll_down
scroll_down(offset, amount) == offset + amount

\* The rows of the two columns before scrolling (render_side_by_side 46-50)
RenderedRows ==
    build_aligned_lines(align_lines(source, dest), source, dest, text_width, fold_unchanged)

\* terminal.draw with the offset the key handler left in the app
DrawFrame(offset) ==
    LET full == RenderedRows
    IN  /\ source_visible' = scroll_and_truncate(full.source_visible, offset,
                                                 available_height, full.source_visible)
        /\ dest_visible' = scroll_and_truncate(full.dest_visible, offset,
                                               available_height, full.source_visible)

\* The state after toggle_side_by_side has loaded the two files of the
\* selected entry, and the first frame is drawn
ScrollInit ==
    /\ phase = "side_by_side"
    /\ app = [AppNew("Mappings") EXCEPT !.shared_to_project_diffs = <<"x">>,
                                         !.show_side_by_side = TRUE]
    /\ source \in SeqsUpTo(RenderLineSet, MaxPipeLines)
    /\ dest \in SeqsUpTo(RenderLineSet, MaxPipeLines)
    /\ text_width \in { 1, MaxWidth }
    /\ fold_unchanged \in BOOLEAN
    /\ available_height \in { 1, MaxHeight }
    /\ diff_scroll_offset = 0
    /\ LET full == RenderedRows
       IN  /\ source_visible = scroll_and_truncate(full.source_visible, 0, available_height,
                                                   full.source_visible)
           /\ dest_visible = scroll_and_truncate(full.dest_visible, 0, available_height,
                                                 full.source_visible)
    /\ aligned = <<>> /\ op_i = 0
    /\ line = <<>> /\ other = <<>> /\ src_diffs = <<>> /\ dest_diffs = <<>>
    /\ WrapIdle
    /\ GutterIdle
    /\ RegistryIdle

\* KeyCode::Up, KeyCode::PageUp with the side-by-side view shown
ScrollUp ==
    /\ phase = "side_by_side"
    /\ app.show_side_by_side
    /\ \E amount \in ScrollAmounts :
          /\ diff_scroll_offset' = scroll_up(diff_scroll_offset, amount)
          /\ DrawFrame(scroll_up(diff_scroll_offset, amount))
    /\ UNCHANGED <<phase, op_i, alignVars, wordVars, text_width, fold_unchanged, available_height, wrapVars, gutterVars, appVars, registryVars>>

\* KeyCode::Down, KeyCode::PageDown with the side-by-side view shown
ScrollDown ==
    /\ phase = "side_by_side"
    /\ app.show_side_by_side
    /\ \E amount \in ScrollAmounts :
          /\ scroll_down(diff_scroll_offset, amount) <= MaxOffset
          /\ diff_scroll_offset' = scroll_down(diff_scroll_offset, amount)
          /\ DrawFrame(scroll_down(diff_scroll_offset, amount))
    /\ UNCHANGED <<phase, op_i, alignVars, wordVars, text_width, fold_unchanged, available_height, wrapVars, gutterVars, appVars, registryVars>>

ScrollNext == ScrollUp \/ ScrollDown

SpecScroll == ScrollInit /\ [][ScrollNext]_vars

\* C27: in side-by-side mode, after any sequence of scroll_up and
\* scroll_down calls, the stored diff_scroll_offset never exceeds the index
\* of the last rendered row.
C27_StoredOffsetWithinRows ==
    phase = "side_by_side" /\ RenderedRows.source_visible # <<>> =>
        diff_scroll_offset <= Len(RenderedRows.source_visible) - 1

----------------------------------------------------------------------------
(* core/rect_handle.rs : the registry of rectangles and of tab bar states. *)
(* A HashMap is a function, an Option is the empty or the one-element      *)
(* sequence                                                                *)

MaxHandles == 2
MaxTabs == 3

DEBOUNCE_DURATION == 50

\* Option<&str> of register: the absent name
NoName == "<none>"

RegistryNames == { "a", "b" }

\* The rectangles passed in: the empty one of initialize_in_registry and
\* the one of test_lookup_by_name
ZeroRect == [x |-> 0, y |-> 0, width |-> 0, height |-> 0]

RectSet == { ZeroRect, [x |-> 10, y |-> 20, width |-> 100, height |-> 50] }

\* Lists of tab configurations, each reduced to its `active` flag
TabConfigLists == UNION { [1..n -> BOOLEAN] : n \in 1..MaxTabs }

\* Times since the last navigation, in ms: within the debounce, and past it
ElapsedSet == { 0, DEBOUNCE_DURATION }

\* HashMap::insert
insert(map, key, value) ==
    [k \in (DOMAIN map) \cup { key } |-> IF k = key THEN value ELSE map[k]]

\* HashMap::remove
remove(map, key) == [k \in (DOMAIN map) \ { key } |-> map[k]]

\* A register that never looks the name up
register_mutant(reg, name, rect) ==
    [registry |-> [reg EXCEPT
         !.handles = insert(@, reg.next_id, [name |-> name, metrics |-> rect]),
         !.name_to_handle = IF name # NoName THEN insert(@, name, reg.next_id) ELSE @,
         !.next_id = @ + 1],
     result |-> reg.next_id]

\* RectRegistry::register: the registry afterwards and the handle returned
register(reg, name, rect) ==
    IF /\ name # NoName
       /\ name \in DOMAIN reg.name_to_handle
       /\ reg.name_to_handle[name] \in DOMAIN reg.handles
    THEN [registry |-> [reg EXCEPT !.handles[reg.name_to_handle[name]].metrics = rect],
          result |-> reg.name_to_handle[name]]
    ELSE [registry |-> [reg EXCEPT
              !.handles = insert(@, reg.next_id, [name |-> name, metrics |-> rect]),
              !.name_to_handle = IF name # NoName THEN insert(@, name, reg.next_id) ELSE @,
              !.next_id = @ + 1],
          result |-> reg.next_id]

\* RectRegistry::get_metrics
get_metrics(reg, handle) ==
    IF handle \in DOMAIN reg.handles THEN << reg.handles[handle].metrics >> ELSE <<>>

\* RectRegistry::get_handle
get_handle(reg, name) ==
    IF name \in DOMAIN reg.name_to_handle THEN << reg.name_to_handle[name] >> ELSE <<>>

\* RectRegistry::unregister
unregister(reg, handle) ==
    IF handle \in DOMAIN reg.handles
    THEN [registry |-> [reg EXCEPT
              !.handles = remove(@, handle),
              !.name_to_handle = IF reg.handles[handle].name # NoName
                                 THEN remove(@, reg.handles[handle].name) ELSE @],
          result |-> TRUE]
    ELSE [registry |-> reg, result |-> FALSE]

\* RectRegistry::unregister_by_name
unregister_by_name(reg, name) ==
    IF name \in DOMAIN reg.name_to_handle
    THEN [registry |-> [reg EXCEPT
              !.name_to_handle = remove(@, name),
              !.handles = remove(@, reg.name_to_handle[name])],
          result |-> TRUE]
    ELSE [registry |-> reg, result |-> FALSE]

\* RectRegistry::set_tab_bar_state
set_tab_bar_state(reg, handle, state) ==
    [reg EXCEPT !.tab_bar_states = insert(@, handle, state)]

\* RectRegistry::get_tab_bar_state
get_tab_bar_state(reg, handle) ==
    IF handle \in DOMAIN reg.tab_bar_states THEN << reg.tab_bar_states[handle] >> ELSE <<>>

\* RectRegistry::get_active_tab
get_active_tab(reg, handle) ==
    IF handle \in DOMAIN reg.tab_bar_states
    THEN << reg.tab_bar_states[handle].active_tab_index >> ELSE <<>>

\* RectRegistry::set_active_tab
set_active_tab(reg, handle, active_index) ==
    IF /\ handle \in DOMAIN reg.tab_bar_states
       /\ active_index < reg.tab_bar_states[handle].tab_count
    THEN [registry |-> [reg EXCEPT !.tab_bar_states[handle].active_tab_index = active_index],
          result |-> TRUE]
    ELSE [registry |-> reg, result |-> FALSE]

\* A forward step that does not wrap
new_index_mutant(current, tab_count, direction) ==
    IF direction < 0
    THEN IF current > 0 THEN current - 1 ELSE tab_count - 1
    ELSE Min(current + 1, tab_count)

\* navigate_tab 457-468: "Calculate new index"
new_index(current, tab_count, direction) ==
    IF direction < 0
    THEN IF current > 0 THEN current - 1 ELSE tab_count - 1
    ELSE (current + 1) % tab_count

\* RectRegistry::navigate_tab; elapsed is the time since the last
\* navigation, read only when there was one
navigate_tab(reg, handle, direction, elapsed) ==
    IF handle \notin DOMAIN reg.tab_bar_states
    THEN [registry |-> reg, result |-> FALSE]
    ELSE LET state == reg.tab_bar_states[handle]
             index == new_index(state.active_tab_index, state.tab_count, direction)
         IN  IF state.last_navigation_time = "Some" /\ elapsed < DEBOUNCE_DURATION
             THEN [registry |-> reg, result |-> FALSE]
             ELSE IF index < state.tab_count
                  THEN [registry |-> [reg EXCEPT
                            !.tab_bar_states[handle].active_tab_index = index,
                            !.tab_bar_states[handle].last_navigation_time = "Some"],
                        result |-> TRUE]
                  ELSE [registry |-> reg, result |-> FALSE]

\* position(|t| t.active).unwrap_or(0)
initial_active_tab_index(tab_configs) ==
    IF \E i \in 1..Len(tab_configs) : tab_configs[i]
    THEN (CHOOSE i \in 1..Len(tab_configs) :
              tab_configs[i] /\ \A j \in 1..(i - 1) : ~tab_configs[j]) - 1
    ELSE 0

\* TabBar::initialize_in_registry
initialize_in_registry(reg, handle_name, tab_configs) ==
    LET r == register(reg, handle_name, ZeroRect)
    IN  [registry |-> set_tab_bar_state(r.registry, r.result,
                          [active_tab_index |-> initial_active_tab_index(tab_configs),
                           tab_count |-> Len(tab_configs),
                           last_navigation_time |-> "None"]),
         result |-> r.result]

\* RectRegistry::clear
clear(reg) == RegistryNew

RegistryRest ==
    UNCHANGED <<phase, alignVars, wordVars, rowVars, viewVars, wrapVars, gutterVars, appVars>>

\* RectRegistry::new
RegistryInit ==
    /\ phase = "registry"
    /\ RegistryIdle
    /\ source = <<>> /\ dest = <<>> /\ aligned = <<>>
    /\ line = <<>> /\ other = <<>> /\ src_diffs = <<>> /\ dest_diffs = <<>>
    /\ op_i = 0 /\ source_visible = <<>> /\ dest_visible = <<>>
    /\ text_width = 0 /\ fold_unchanged = TRUE
    /\ diff_scroll_offset = 0 /\ available_height = 0
    /\ WrapIdle
    /\ GutterIdle
    /\ AppIdle

Register ==
    /\ phase = "registry"
    /\ \E name \in RegistryNames \cup { NoName }, rect \in RectSet :
          LET r == register(registry, name, rect)
          IN  /\ r.registry.next_id <= MaxHandles + 1
              /\ registry' = r.registry
              /\ registry_call' = [op |-> "register", name |-> name, rect |-> rect,
                                   result |-> r.result]
    /\ RegistryRest

Unregister ==
    /\ phase = "registry"
    /\ \E handle \in 1..MaxHandles :
          LET r == unregister(registry, handle)
          IN  /\ registry' = r.registry
              /\ registry_call' = [op |-> "unregister", handle |-> handle, result |-> r.result]
    /\ RegistryRest

UnregisterByName ==
    /\ phase = "registry"
    /\ \E name \in RegistryNames :
          LET r == unregister_by_name(registry, name)
          IN  /\ registry' = r.registry
              /\ registry_call' = [op |-> "unregister_by_name",
                                   handle |-> IF r.result THEN registry.name_to_handle[name]
                                              ELSE 0,
                                   result |-> r.result]
    /\ RegistryRest

\* The tab bars have at least one tab: navigate_tab divides by tab_count
InitializeInRegistry ==
    /\ phase = "registry"
    /\ \E handle_name \in RegistryNames, tab_configs \in TabConfigLists :
          LET r == initialize_in_registry(registry, handle_name, tab_configs)
          IN  /\ r.registry.next_id <= MaxHandles + 1
              /\ registry' = r.registry
              /\ registry_call' = [op |-> "initialize_in_registry", name |-> handle_name,
                                   rect |-> ZeroRect, result |-> r.result]
    /\ RegistryRest

SetActiveTab ==
    /\ phase = "registry"
    /\ \E handle \in 1..MaxHandles, active_index \in 0..MaxTabs :
          LET r == set_active_tab(registry, handle, active_index)
          IN  /\ registry' = r.registry
              /\ registry_call' = [op |-> "set_active_tab", handle |-> handle,
                                   result |-> r.result]
    /\ RegistryRest

NavigateTab ==
    /\ phase = "registry"
    /\ \E handle \in 1..MaxHandles, direction \in { -1, 1 }, elapsed \in ElapsedSet :
          LET r == navigate_tab(registry, handle, direction, elapsed)
          IN  /\ registry' = r.registry
              /\ registry_call' = [op |-> "navigate_tab", handle |-> handle,
                                   direction |-> direction, elapsed |-> elapsed,
                                   result |-> r.result]
    /\ RegistryRest

Clear ==
    /\ phase = "registry"
    /\ registry' = clear(registry)
    /\ registry_call' = [op |-> "clear"]
    /\ RegistryRest

RegistryNext ==
    \/ Register
    \/ Unregister
    \/ UnregisterByName
    \/ InitializeInRegistry
    \/ SetActiveTab
    \/ NavigateTab
    \/ Clear

SpecRegistry == RegistryInit /\ [][RegistryNext]_vars

----------------------------------------------------------------------------
(* Claims about the tab bars and the names of the registry                 *)

\* The call just made moved the tab bar: it was not within the debounce
Navigated ==
    /\ registry_call'.op = "navigate_tab"
    /\ registry_call'.handle \in DOMAIN registry.tab_bar_states
    /\ \/ registry.tab_bar_states[registry_call'.handle].last_navigation_time = "None"
       \/ registry_call'.elapsed >= DEBOUNCE_DURATION

\* C23: for a tab bar with tab_count >= 1, after any sequence of
\* set_active_tab and navigate_tab calls (any indices, directions and
\* timing) the active tab index stays below tab_count; forward navigation
\* from the last tab wraps to 0, backward navigation from tab 0 wraps to
\* tab_count - 1.
C23_ActiveTabBelowTabCount ==
    /\ [](\A h \in DOMAIN registry.tab_bar_states :
              registry.tab_bar_states[h].tab_count >= 1 =>
                  registry.tab_bar_states[h].active_tab_index
                      < registry.tab_bar_states[h].tab_count)
    /\ [][ Navigated =>
             LET h == registry_call'.handle
                 before == registry.tab_bar_states[h]
                 after == registry'.tab_bar_states[h]
             IN  /\ registry_call'.result
                 /\ registry_call'.direction > 0
                        /\ before.active_tab_index = before.tab_count - 1
                        => after.active_tab_index = 0
                 /\ registry_call'.direction < 0 /\ before.active_tab_index = 0
                        => after.active_tab_index = before.tab_count - 1 ]_vars

\* C23 witness: a forward navigation that was carried out has left the bar
\* of MaxTabs tabs on tab 0, so it started on the last tab.
C23_Witness ==
    /\ registry_call.op = "navigate_tab"
    /\ registry_call.direction > 0
    /\ registry_call.result
    /\ registry.tab_bar_states[registry_call.handle].tab_count = MaxTabs
    /\ registry.tab_bar_states[registry_call.handle].active_tab_index = 0

\* C24: registering a rectangle under a name that is already registered
\* returns the handle issued earlier for that name and replaces the
\* metrics of that entry; no second entry is created: the number of
\* registered handles is unchanged and get_handle(name) returns the same
\* handle as before.
C24_RegisterSameNameSameHandle ==
    [][ /\ registry_call'.op \in { "register", "initialize_in_registry" }
        /\ get_handle(registry, registry_call'.name) # <<>>
        => /\ << registry_call'.result >> = get_handle(registry, registry_call'.name)
           /\ get_metrics(registry', registry_call'.result) = << registry_call'.rect >>
           /\ Cardinality(DOMAIN registry'.handles) = Cardinality(DOMAIN registry.handles)
           /\ get_handle(registry', registry_call'.name)
                  = get_handle(registry, registry_call'.name) ]_vars

\* C24 witness: one handle was issued since the registry was empty, to the
\* tab bar "a" with the empty rectangle; the last call registered "a",
\* got that handle, and the entry holds the rectangle of that call.
C24_Witness ==
    /\ registry_call.op = "register"
    /\ registry_call.name = "a"
    /\ registry_call.result = 1
    /\ registry.next_id = 2
    /\ 1 \in DOMAIN registry.tab_bar_states
    /\ registry_call.rect # ZeroRect
    /\ get_metrics(registry, 1) = << registry_call.rect >>
    /\ Cardinality(DOMAIN registry.handles) = 1

\* C29: after unregister(handle) or unregister_by_name(name) has removed
\* an entry, no tab bar state remains for that handle: get_tab_bar_state
\* and get_active_tab return None for it, set_active_tab and navigate_tab
\* on it return false.
C29_NoTabBarStateAfterUnregister ==
    registry_call.op \in { "unregister", "unregister_by_name" } /\ registry_call.result =>
        LET h == registry_call.handle
        IN  /\ get_tab_bar_state(registry, h) = <<>>
            /\ get_active_tab(registry, h) = <<>>
            /\ \A active_index \in 0..MaxTabs : ~set_active_tab(registry, h, active_index).result
            /\ \A direction \in { -1, 1 }, elapsed \in ElapsedSet :
                   ~navigate_tab(registry, h, direction, elapsed).result

====
